---------------------------- MODULE Spec2Model ----------------------------
(***************************************************************************)
(* Model of prospector's version resolution engine (src/src/index.ts).     *)
(*                                                                         *)
(* A git repository (a linear history reachable from HEAD, a set of tags,  *)
(* the checked-out branch) is built by the operations the integration      *)
(* tests use (addCommit, createTag, createBranch); calculateVersion then   *)
(* runs as a sequence of awaited git queries, one action per query.        *)
(*                                                                         *)
(* Strings are sequences of tokens.  Version strings, tag names and branch *)
(* names are spelled character by character; commit messages are spelled   *)
(* in words, with the bracketed markers as single words.  "NUL" and "LF"   *)
(* stand for the bytes \x00 and \n of git's output.                        *)
(***************************************************************************)
EXTENDS Integers, Sequences, FiniteSets, TLC

\* ------------------------------------------------------------------ bounds
MaxCommits == 4       \* commits in the history reachable from HEAD
MaxTags == 1          \* tags created in the repository (Spec)
MaxTagCommits == 2    \* commits in the history (SpecTags)
MaxTagsT == 3         \* tags created in the repository (SpecTags)
MaxSuggestCommits == 3  \* commits in the history (SpecSuggest)
MaxFailCommits == 3   \* commits in the history (SpecFail)
MaxScanned == 3       \* commits handed to analyzeCommitBumps (SpecAnalyze)
MaxHistCommits == 3   \* commits in the history (SpecHistory)
MaxConcCommits == 3   \* commits in the history (SpecConcurrent)
MaxProgCommits == 2   \* commits in the history (SpecProgress)
MaxNameLen == 4       \* characters of a branch name (SpecSanitize)

\* ----------------------------------------------------------------- strings
DigitChars == <<"0", "1", "2", "3", "4", "5", "6", "7", "8", "9">>

Digits == {DigitChars[i] : i \in 1..10}

Letters ==
  {"a", "b", "c", "d", "e", "f", "g", "h", "i", "j", "k", "l", "m", "n",
   "o", "p", "q", "r", "s", "t", "u", "v", "w", "x", "y", "z",
   "A", "B", "C", "D", "E", "F", "G", "H", "I", "J", "K", "L", "M", "N",
   "O", "P", "Q", "R", "S", "T", "U", "V", "W", "X", "Y", "Z"}

DigitVal(c) == (CHOOSE i \in 1..10 : DigitChars[i] = c) - 1

\* Number.prototype.toString / template interpolation of a non-negative integer
RECURSIVE Str(_)
Str(n) == IF n < 10 THEN <<DigitChars[n + 1]>>
          ELSE Str(n \div 10) \o <<DigitChars[(n % 10) + 1]>>

\* length of the longest prefix of s made of digits
RECURSIVE DigitRun(_)
DigitRun(s) == IF s = <<>> \/ Head(s) \notin Digits THEN 0
               ELSE 1 + DigitRun(Tail(s))

\* value of a sequence of digits
RECURSIVE NatOf(_)
NatOf(s) == IF s = <<>> THEN 0
            ELSE NatOf(SubSeq(s, 1, Len(s) - 1)) * 10 + DigitVal(s[Len(s)])

\* parseInt(s, 10) || 0
ParseInt(s) == NatOf(SubSeq(s, 1, DigitRun(s)))

Drop(s, n) == SubSeq(s, n + 1, Len(s))

StartsWith(s, p) == Len(s) >= Len(p) /\ SubSeq(s, 1, Len(p)) = p

\* String.prototype.split(sep) for a one-token separator
RECURSIVE Split(_, _)
Split(s, sep) ==
  IF \A i \in 1..Len(s) : s[i] # sep THEN <<s>>
  ELSE LET i == CHOOSE j \in 1..Len(s) :
                  s[j] = sep /\ \A k \in 1..(j - 1) : s[k] # sep
       IN <<SubSeq(s, 1, i - 1)>> \o Split(Drop(s, i), sep)

\* String.prototype.split('\x00\x00'): the separator is two adjacent NUL bytes
RECURSIVE SplitNulNul(_)
SplitNulNul(s) ==
  LET Hit(j) == j < Len(s) /\ s[j] = "NUL" /\ s[j + 1] = "NUL"
  IN IF \A j \in 1..Len(s) : ~Hit(j) THEN <<s>>
     ELSE LET i == CHOOSE j \in 1..Len(s) :
                     Hit(j) /\ \A k \in 1..(j - 1) : ~Hit(k)
          IN <<SubSeq(s, 1, i - 1)>> \o SplitNulNul(Drop(s, i + 1))

\* Array.prototype.filter(Boolean) on an array of strings: drops the empty ones
RECURSIVE FilterBoolean(_)
FilterBoolean(ss) ==
  IF ss = <<>> THEN <<>>
  ELSE IF Head(ss) = <<>> THEN FilterBoolean(Tail(ss))
       ELSE <<Head(ss)>> \o FilterBoolean(Tail(ss))

Whitespace == {"LF", " "}

\* String.prototype.trim
RECURSIVE TrimLeft(_)
TrimLeft(s) == IF s # <<>> /\ Head(s) \in Whitespace THEN TrimLeft(Tail(s)) ELSE s

RECURSIVE TrimRight(_)
TrimRight(s) == IF s # <<>> /\ s[Len(s)] \in Whitespace
                THEN TrimRight(SubSeq(s, 1, Len(s) - 1)) ELSE s

Trim(s) == TrimRight(TrimLeft(s))

RECURSIVE Concat(_)
Concat(ss) == IF ss = <<>> THEN <<>> ELSE Head(ss) \o Concat(Tail(ss))


\* ------------------------------------------------------------------ semver
\* A parsed semver.SemVer; ok = FALSE stands for null.
NullVer == [ok |-> FALSE, major |-> 0, minor |-> 0, patch |-> 0, prerelease |-> <<>>]

IdentChars == Letters \cup Digits \cup {"-"}

\* a numeric identifier of the strict grammar: 0 | [1-9]\d*
NumOk(d) == d # <<>> /\ (Len(d) = 1 \/ d[1] # "0")

\* dot-separated identifiers of the strict grammar: none empty, each over
\* [0-9A-Za-z-], and in a prerelease a numeric one without leading zeros
IdsOk(s, pre) ==
  \A k \in 1..Len(Split(s, ".")) :
     LET id == Split(s, ".")[k]
     IN /\ id # <<>>
        /\ \A i \in 1..Len(id) : id[i] \in IdentChars
        /\ ((pre /\ DigitRun(id) = Len(id)) => NumOk(id))

\* the -prerelease and +build tail of the strict grammar
TailOk(t) ==
  \/ t = <<>>
  \/ /\ Head(t) \in {"-", "+"}
     /\ LET parts == Split(Tail(t), "+")
        IN IF Head(t) = "-"
           THEN /\ Len(parts) <= 2
                /\ IdsOk(parts[1], TRUE)
                /\ (Len(parts) = 2 => IdsOk(parts[2], FALSE))
           ELSE Len(parts) = 1 /\ IdsOk(parts[1], FALSE)

PrereleaseOf(t) ==
  IF t = <<>> \/ Head(t) # "-" THEN <<>>
  ELSE Head(Split(Tail(t), "+"))

\* semver.parse(s) in strict mode: v?MAJOR.MINOR.PATCH(-prerelease)?(+build)?
SemverParse(s) ==
  LET s0 == IF s # <<>> /\ Head(s) = "v" THEN Tail(s) ELSE s
      n1 == DigitRun(s0)
      a  == SubSeq(s0, 1, n1)
      r1 == Drop(s0, n1)
      s1 == IF r1 # <<>> THEN Tail(r1) ELSE <<>>
      n2 == DigitRun(s1)
      b  == SubSeq(s1, 1, n2)
      r2 == Drop(s1, n2)
      s2 == IF r2 # <<>> THEN Tail(r2) ELSE <<>>
      n3 == DigitRun(s2)
      c  == SubSeq(s2, 1, n3)
      t  == Drop(s2, n3)
      good == /\ NumOk(a) /\ r1 # <<>> /\ Head(r1) = "."
              /\ NumOk(b) /\ r2 # <<>> /\ Head(r2) = "."
              /\ NumOk(c) /\ TailOk(t)
  IN IF good
     THEN [ok |-> TRUE, major |-> NatOf(a), minor |-> NatOf(b), patch |-> NatOf(c),
           prerelease |-> PrereleaseOf(t)]
     ELSE NullVer

\* SemVer.prototype.format(): major.minor.patch, then -prerelease when there is one
Format(v) ==
  Str(v.major) \o <<".">> \o Str(v.minor) \o <<".">> \o Str(v.patch)
    \o (IF v.prerelease # <<>> THEN <<"-">> \o v.prerelease ELSE <<>>)

AsciiOrder ==
  <<"-", "0", "1", "2", "3", "4", "5", "6", "7", "8", "9",
    "A", "B", "C", "D", "E", "F", "G", "H", "I", "J", "K", "L", "M", "N",
    "O", "P", "Q", "R", "S", "T", "U", "V", "W", "X", "Y", "Z",
    "a", "b", "c", "d", "e", "f", "g", "h", "i", "j", "k", "l", "m", "n",
    "o", "p", "q", "r", "s", "t", "u", "v", "w", "x", "y", "z">>

CharRank(c) == CHOOSE i \in 1..Len(AsciiOrder) : AsciiOrder[i] = c

\* string comparison x < y by code unit
RECURSIVE StrLess(_, _)
StrLess(x, y) ==
  IF y = <<>> THEN FALSE
  ELSE IF x = <<>> THEN TRUE
  ELSE IF Head(x) = Head(y) THEN StrLess(Tail(x), Tail(y))
  ELSE CharRank(Head(x)) < CharRank(Head(y))

IsNumericId(x) == x # <<>> /\ \A i \in 1..Len(x) : x[i] \in Digits

\* compareIdentifiers(a, b): -1, 0 or 1
CompareIdentifiers(x, y) ==
  IF IsNumericId(x) /\ IsNumericId(y)
  THEN (IF NatOf(x) = NatOf(y) THEN 0 ELSE IF NatOf(x) < NatOf(y) THEN -1 ELSE 1)
  ELSE IF x = y THEN 0
  ELSE IF IsNumericId(x) /\ ~IsNumericId(y) THEN -1
  ELSE IF IsNumericId(y) /\ ~IsNumericId(x) THEN 1
  ELSE IF StrLess(x, y) THEN -1 ELSE 1

\* SemVer.prototype.comparePre on the lists of prerelease identifiers
RECURSIVE ComparePreIds(_, _)
ComparePreIds(xs, ys) ==
  IF xs = <<>> /\ ys = <<>> THEN 0
  ELSE IF ys = <<>> THEN 1
  ELSE IF xs = <<>> THEN -1
  ELSE IF CompareIdentifiers(Head(xs), Head(ys)) # 0
       THEN CompareIdentifiers(Head(xs), Head(ys))
       ELSE ComparePreIds(Tail(xs), Tail(ys))

ComparePre(a, b) ==
  IF a.prerelease # <<>> /\ b.prerelease = <<>> THEN -1
  ELSE IF a.prerelease = <<>> /\ b.prerelease # <<>> THEN 1
  ELSE IF a.prerelease = <<>> /\ b.prerelease = <<>> THEN 0
  ELSE ComparePreIds(Split(a.prerelease, "."), Split(b.prerelease, "."))

\* semver.compare(a, b): -1, 0 or 1
Compare(a, b) ==
  IF a.major # b.major THEN (IF a.major < b.major THEN -1 ELSE 1)
  ELSE IF a.minor # b.minor THEN (IF a.minor < b.minor THEN -1 ELSE 1)
  ELSE IF a.patch # b.patch THEN (IF a.patch < b.patch THEN -1 ELSE 1)
  ELSE ComparePre(a, b)

\* semver.rcompare(a, b)
RCompare(a, b) == Compare(b, a)

\* an increment that leaves the lower parts as they are
IncNoReset(v, release) ==
  IF release = "major" THEN [v EXCEPT !.major = @ + 1]
  ELSE IF release = "minor" THEN [v EXCEPT !.minor = @ + 1]
  ELSE IF release = "patch" THEN [v EXCEPT !.patch = @ + 1]
  ELSE NullVer

\* semver.inc(version, release) for release in major, minor, patch; null
\* (NullVer) for a release type semver does not know, whose "invalid
\* increment argument" error semver.inc catches
Inc(v, release) ==
  IF release = "major"
  THEN (IF v.minor # 0 \/ v.patch # 0 \/ v.prerelease = <<>>
        THEN [v EXCEPT !.major = v.major + 1, !.minor = 0, !.patch = 0, !.prerelease = <<>>]
        ELSE [v EXCEPT !.minor = 0, !.patch = 0, !.prerelease = <<>>])
  ELSE IF release = "minor"
  THEN (IF v.patch # 0 \/ v.prerelease = <<>>
        THEN [v EXCEPT !.minor = v.minor + 1, !.patch = 0, !.prerelease = <<>>]
        ELSE [v EXCEPT !.patch = 0, !.prerelease = <<>>])
  ELSE IF release = "patch"
  THEN (IF v.prerelease = <<>>
        THEN [v EXCEPT !.patch = v.patch + 1]
        ELSE [v EXCEPT !.prerelease = <<>>])
  ELSE NullVer


\* -------------------------------------------------------------- repository
VARIABLES
  history,          \* messages of the commits reachable from HEAD, oldest first
  tags,             \* set of [tag, commit]: the repository's tags
  branch,           \* name of the checked-out branch
  pc,               \* where the running calculateVersion call is
  opts,             \* the options of the running call
  currentBranch, currentCommit, isMainBranch,
  tagCommits,       \* getVersionTags: the candidate tag names, in Map order
  versionTags, lastTag,
  commits, commitBumps, commitsSinceTag, version,
  bumpType,         \* the kind given to suggestVersionBump; "" in a direct call
  bumped,           \* what suggestVersionBump returned
  failed,           \* the queries of the running call that git failed
  issued,           \* the git commands the running call has spawned, in order
  previous,         \* the result the caller got from the call before
  other,            \* a second call of the process, suspended at an await
  lastIndex,        \* lastIndex of the RegExp objects: the module's four, the caller's
  updateInterval,   \* countCommits: whether its setInterval timer is running
  dots,             \* countCommits: the dots of its last progress message
  commitBlocks,     \* getCommitsWithBumps: the blocks of the log output
  allCommits,       \* getCommitsWithBumps: the commits parsed so far
  chunkStart        \* getCommitsWithBumps: i of the chunk loop

repo == <<history, tags, branch>>
locals == <<currentBranch, currentCommit, isMainBranch, tagCommits, versionTags,
            lastTag, commits, commitBumps, commitsSinceTag, version>>
caller == <<bumpType, bumped, failed>>
chunks == <<commitBlocks, allCommits, chunkStart>>
process == <<previous, other, lastIndex, updateInterval, dots, commitBlocks,
             allCommits, chunkStart>>
vars == <<history, tags, branch, pc, opts, currentBranch, currentCommit,
          isMainBranch, tagCommits, versionTags, lastTag, commits, commitBumps,
          commitsSinceTag, version, bumpType, bumped, failed, issued, previous,
          other, lastIndex, updateInterval, dots, commitBlocks, allCommits,
          chunkStart>>

\* commit hashes, by position in the history; OffHead is a commit that is not
\* an ancestor of HEAD (one made on another branch)
HashStr == <<"h1", "h2", "h3", "h4", "h5", "h6", "h7", "h8">>

OffHead == "hx"

HeadHash == HashStr[Len(history)]

\* position in the history of the commit a revision names; 0 when not reachable
CommitIndex(h) ==
  IF \E i \in 1..Len(history) : HashStr[i] = h
  THEN CHOOSE i \in 1..Len(history) : HashStr[i] = h
  ELSE 0

\* position of the commit a revision argument names: an empty argument is
\* dropped from the command line and git takes HEAD
RevIndex(rev) == IF rev = "" THEN Len(history) ELSE CommitIndex(rev)

\* commit messages, in words
MsgPlain    == <<"update", " ", "deps">>
MsgMajor    == <<"[major]", " ", "breaking", " ", "change">>
MsgMinor    == <<"[minor]", " ", "add", " ", "feature">>
MsgPatch    == <<"[patch]", " ", "fix", " ", "bug">>
MsgExplicit == <<"[v:", "5", ".", "0", ".", "0", "]", " ", "jump">>
MsgEmpty    == <<>>
\* a message that spells the marker syntax out: the one text the --grep of
\* the targeted scan selects
MsgSyntax   == <<"[major]", "|", "[minor]", "|", "[patch]", "|", "[version:", "|", "[v:">>

Messages == {MsgPlain, MsgMajor, MsgMinor, MsgPatch, MsgExplicit, MsgEmpty}

\* tag names, spelled out; AllTagNames lists them in refname order
TagR900   == <<"r", "9", ".", "0", ".", "0">>
TagV120   == <<"v", "1", ".", "2", ".", "0">>
TagV200   == <<"v", "2", ".", "0", ".", "0">>
TagV300rc == <<"v", "3", ".", "0", ".", "0", "-", "r", "c", ".", "1">>
TagVnext  == <<"v", "n", "e", "x", "t">>

AllTagNames == <<TagR900, TagV120, TagV200, TagV300rc, TagVnext>>

BranchMain    == <<"m", "a", "i", "n">>
BranchMaster  == <<"m", "a", "s", "t", "e", "r">>
BranchFeature == <<"f", "e", "a", "t", "/", "x", "@", "1">>
BranchScratch == <<"_", "w", "i", "p", "_">>
BranchUnknown == <<"u", "n", "k", "n", "o", "w", "n">>

NullTag == [tag |-> <<>>, version |-> NullVer, commit |-> ""]

NoBumps == [major |-> 0, minor |-> 0, patch |-> 0, explicitVersion |-> <<>>]

\* the caller holds no result of an earlier call
NoResult ==
  [called |-> FALSE, opts |-> [enableCommitBumps |-> TRUE, maxCommitScan |-> <<>>, commitBumpPatterns |-> <<>>],
   history |-> <<>>, base |-> 0, commitBumps |-> NoBumps, commitsSinceTag |-> 0,
   version |-> <<>>]

\* the local variables of a call that is not running
NoCall ==
  [pc |-> "idle", opts |-> [enableCommitBumps |-> TRUE, maxCommitScan |-> <<>>, commitBumpPatterns |-> <<>>],
   currentBranch |-> <<>>, currentCommit |-> "", isMainBranch |-> FALSE,
   tagCommits |-> <<>>, versionTags |-> <<>>, lastTag |-> NullTag, commits |-> <<>>,
   commitBumps |-> NoBumps, commitsSinceTag |-> 0, version |-> <<>>,
   bumpType |-> "", bumped |-> <<>>, failed |-> {}, issued |-> <<>>]

\* lastIndex of DEFAULT_BUMP_PATTERNS.major/minor/patch, of VERSION_SET_PATTERN
\* and of the caller's own pattern object, as they are created
NoMatchYet == [p \in {"[major]", "[minor]", "[patch]", "[v:", "caller"} |-> 0]

\* createTempGitRepo: git init -b main, one initial commit, no tags
Init ==
  /\ history = <<<<"Initial", " ", "commit">>>>
  /\ tags = {}
  /\ branch = BranchMain
  /\ pc = "idle"
  /\ opts = [enableCommitBumps |-> TRUE, maxCommitScan |-> <<>>, commitBumpPatterns |-> <<>>]
  /\ currentBranch = <<>>
  /\ currentCommit = ""
  /\ isMainBranch = FALSE
  /\ tagCommits = <<>>
  /\ versionTags = <<>>
  /\ lastTag = NullTag
  /\ commits = <<>>
  /\ commitBumps = NoBumps
  /\ commitsSinceTag = 0
  /\ version = <<>>
  /\ bumpType = ""
  /\ bumped = <<>>
  /\ failed = {}
  /\ issued = <<>>
  /\ previous = NoResult
  /\ other = NoCall
  /\ lastIndex = NoMatchYet
  /\ updateInterval = FALSE
  /\ dots = 0
  /\ commitBlocks = <<>>
  /\ allCommits = <<>>
  /\ chunkStart = 0

\* addCommit: git commit --allow-empty -m message
AddCommit(message, max) ==
  /\ pc = "idle"
  /\ Len(history) < max
  /\ history' = Append(history, message)
  /\ UNCHANGED <<tags, branch, pc, opts>>
  /\ UNCHANGED locals
  /\ UNCHANGED caller
  /\ UNCHANGED issued
  /\ UNCHANGED process

\* createTag: git tag name [commit]; git refuses a name that exists
CreateTag(name, commit, max) ==
  /\ pc = "idle"
  /\ Cardinality(tags) < max
  /\ \A t \in tags : t.tag # name
  /\ tags' = tags \cup {[tag |-> name, commit |-> commit]}
  /\ UNCHANGED <<history, branch, pc, opts>>
  /\ UNCHANGED locals
  /\ UNCHANGED caller
  /\ UNCHANGED issued
  /\ UNCHANGED process

\* createBranch: git checkout -b name
CreateBranch(name) ==
  /\ pc = "idle"
  /\ branch # name
  /\ branch' = name
  /\ UNCHANGED <<history, tags, pc, opts>>
  /\ UNCHANGED locals
  /\ UNCHANGED caller
  /\ UNCHANGED issued
  /\ UNCHANGED process

\* ------------------------------------------------------- git, the collaborator
\* the repository's tags as a sequence, in refname order
RECURSIVE TagsInOrder(_)
TagsInOrder(names) ==
  IF names = <<>> THEN <<>>
  ELSE (IF \E t \in tags : t.tag = Head(names)
        THEN <<CHOOSE t \in tags : t.tag = Head(names)>> ELSE <<>>)
       \o TagsInOrder(Tail(names))

RECURSIVE Lines(_)
Lines(ss) == IF ss = <<>> THEN <<>> ELSE Head(ss) \o <<"LF">> \o Lines(Tail(ss))

RECURSIVE MapTagName(_)
MapTagName(ts) == IF ts = <<>> THEN <<>> ELSE <<Head(ts).tag>> \o MapTagName(Tail(ts))

RECURSIVE MapShowRef(_)
MapShowRef(ts) ==
  IF ts = <<>> THEN <<>>
  ELSE <<<<Head(ts).commit, " ", "refs/tags/">> \o Head(ts).tag>> \o MapShowRef(Tail(ts))

\* git rev-parse --abbrev-ref HEAD
GitCurrentBranch == branch \o <<"LF">>

\* git rev-parse HEAD
GitCurrentCommit == <<HeadHash, "LF">>

\* git tag -l
GitTagList == Lines(MapTagName(TagsInOrder(AllTagNames)))

\* git show-ref --tags name...: "hash refs/tags/name" for each named tag
GitShowRef(names) ==
  Lines(MapShowRef(SelectSeq(TagsInOrder(AllTagNames),
                             LAMBDA t : \E i \in 1..Len(names) : names[i] = t.tag)))

\* git tag --merged commit: the tags whose commit is an ancestor of (or is) commit
GitTagMerged(commit) ==
  Lines(MapTagName(SelectSeq(TagsInOrder(AllTagNames),
                             LAMBDA t : /\ CommitIndex(t.commit) >= 1
                                        /\ CommitIndex(t.commit) <= RevIndex(commit))))

\* git rev-list --count from..to, and git rev-list --count HEAD for from = ""
GitRevListCount(from, to) ==
  Str(RevIndex(to) - (IF from = "" THEN 0 ELSE CommitIndex(from))) \o <<"LF">>

\* the pattern getCommitsWithBumps hands to git log --grep, as git receives it
\* after parseCommandArgs dropped the quotes: the five markers joined by \|
GrepPattern ==
  <<"[major]", "|", "[minor]", "|", "[patch]", "|", "[version:", "|", "[v:">>

\* git log --grep=GrepPattern -E: -E selects POSIX extended syntax, in which
\* \[ \] and \| are the literal characters: a message matches when it contains
\* the whole text of GrepPattern
GrepMatches(message) ==
  \E i \in 1..Len(message) :
     /\ i + Len(GrepPattern) - 1 <= Len(message)
     /\ SubSeq(message, i, i + Len(GrepPattern) - 1) = GrepPattern

\* one record of git log --format=%H%x00%B%x00: the hash, NUL, the raw body
\* (the message and its final newline; nothing for an empty message), NUL, and
\* the newline that ends every record
LogRecord(i) ==
  <<HashStr[i], "NUL">>
    \o (IF history[i] = <<>> THEN <<>> ELSE history[i] \o <<"LF">>)
    \o <<"NUL", "LF">>

RECURSIVE LogRecords(_)
LogRecords(is) == IF is = <<>> THEN <<>> ELSE LogRecord(Head(is)) \o LogRecords(Tail(is))

\* a log whose range starts at the commit of from, not after it
GitLogFromBaseline(from, to, limit, grep) ==
  LET f == IF from = "" THEN 0 ELSE CommitIndex(from) - 1
      t == RevIndex(to)
      range == [i \in 1..(t - f) |-> t - i + 1]
      kept == IF grep THEN SelectSeq(range, LAMBDA i : GrepMatches(history[i]))
              ELSE range
      shown == IF limit > 0 /\ Len(kept) > limit THEN SubSeq(kept, 1, limit) ELSE kept
  IN LogRecords(shown)

\* git log from..to [-n limit] [--grep ...] --format=%H%x00%B%x00, newest first;
\* from = "" is the whole history of to; limit = 0 is no -n flag
GitLog(from, to, limit, grep) ==
  LET f == IF from = "" THEN 0 ELSE CommitIndex(from)
      t == RevIndex(to)
      range == [i \in 1..(t - f) |-> t - i + 1]
      kept == IF grep THEN SelectSeq(range, LAMBDA i : GrepMatches(history[i]))
              ELSE range
      shown == IF limit > 0 /\ Len(kept) > limit THEN SubSeq(kept, 1, limit) ELSE kept
  IN LogRecords(shown)


\* ------------------------------------------------------------ the engine
\* gitExec: stdout.trim() of a command that exits 0
GitExec(stdout) == Trim(stdout)

\* gitExec keeping the output of a command that failed
GitExecAnyCode(ok, stdout) == GitExec(stdout)

\* gitExec: '' when the command exits non-zero or cannot be spawned
GitExecCode(ok, stdout) == IF ok THEN GitExec(stdout) ELSE <<>>

\* the loop body shared by getCommitMessages and getCommitsWithBumps:
\* const [hash, message] = block.split('\x00');
\* if (hash && message !== undefined) push({ hash, message })
RECURSIVE ParseBlocks(_)
ParseBlocks(blocks) ==
  IF blocks = <<>> THEN <<>>
  ELSE LET parts == Split(Head(blocks), "NUL")
       IN (IF parts[1] # <<>> /\ Len(parts) >= 2
           THEN <<[hash |-> parts[1], message |-> parts[2]]>> ELSE <<>>)
          \o ParseBlocks(Tail(blocks))

\* output.split('\x00\x00').filter(Boolean), then the loop; [] for empty output
ParseLog(output) ==
  IF output = <<>> THEN <<>>
  ELSE ParseBlocks(FilterBoolean(SplitNulNul(output)))

\* ok: whether the git log command exits 0
getCommitMessages(ok, from, to, limit) ==
  ParseLog(GitExecCode(ok, GitLog(from, to, limit, FALSE)))

getCommitsWithBumps(ok, from, to) ==
  ParseLog(GitExecCode(ok, GitLog(from, to, 0, TRUE)))

\* the flags of DEFAULT_BUMP_PATTERNS and VERSION_SET_PATTERN: /.../i
PatternFlags == {"i"}

\* RegExp.prototype.exec / test: the search starts at the object's lastIndex
\* when the pattern is global or sticky, at 0 otherwise
StartIndex(flags, li) == IF "g" \in flags \/ "y" \in flags THEN li ELSE 0

\* and writes lastIndex (the end of the match, 0 after a failure) only when
\* the pattern is global or sticky
LastIndexAfter(flags, li, end) == IF "g" \in flags \/ "y" \in flags THEN end ELSE li

\* the capture of \[(?:version|v):(\d+\.\d+\.\d+)\] when it matches right
\* after the opening word at position i of the message; <<>> when it does not
CaptureAt(message, i) ==
  LET r  == Drop(message, i)
      n1 == DigitRun(r)
      r1 == Drop(r, n1)
      n2 == IF r1 # <<>> /\ Head(r1) = "." THEN DigitRun(Tail(r1)) ELSE 0
      r2 == Drop(r1, n2 + 1)
      n3 == IF r2 # <<>> /\ Head(r2) = "." THEN DigitRun(Tail(r2)) ELSE 0
      r3 == Drop(r2, n3 + 1)
  IN IF /\ message[i] \in {"[v:", "[version:"}
        /\ n1 > 0 /\ n2 > 0 /\ n3 > 0
        /\ r3 # <<>> /\ Head(r3) = "]"
     THEN SubSeq(r, 1, n1 + n2 + n3 + 2)
     ELSE <<>>

\* where the leftmost match of VERSION_SET_PATTERN after position start begins;
\* 0 when there is none
VersionMatchAt(message, start) ==
  IF \E i \in (start + 1)..Len(message) : CaptureAt(message, i) # <<>>
  THEN CHOOSE i \in (start + 1)..Len(message) :
          /\ CaptureAt(message, i) # <<>>
          /\ \A k \in (start + 1)..(i - 1) : CaptureAt(message, k) = <<>>
  ELSE 0

\* VERSION_SET_PATTERN.exec(message)?.[1] with the pattern objects' lastIndex
\* values li: the capture of the leftmost match
VersionCapture(message, li) ==
  LET i == VersionMatchAt(message, StartIndex(PatternFlags, li["[v:"]))
  IN IF i > 0 THEN CaptureAt(message, i) ELSE <<>>

VersionSetExec(message) == VersionCapture(message, lastIndex)

\* where the leftmost match of a bump pattern after position start ends; 0
\* when there is none
MatchEnd(marker, message, start) ==
  IF \E i \in (start + 1)..Len(message) : message[i] = marker
  THEN CHOOSE i \in (start + 1)..Len(message) :
          message[i] = marker /\ \A k \in (start + 1)..(i - 1) : message[k] # marker
  ELSE 0

\* bumpPatterns: options.commitBumpPatterns?.major || DEFAULT_BUMP_PATTERNS.major,
\* and the defaults for minor and patch. key names the RegExp object: the
\* caller's, or the module's own
PatternOf(marker) ==
  IF marker = "[major]" /\ opts.commitBumpPatterns # <<>>
  THEN [key |-> "caller", flags |-> opts.commitBumpPatterns[1]]
  ELSE [key |-> marker, flags |-> PatternFlags]

\* the end of the match exec / test finds in message; 0 when it fails
EndOf(marker, message, li) ==
  IF marker = "[v:"
  THEN LET i == VersionMatchAt(message, StartIndex(PatternFlags, li[marker]))
       IN IF i > 0 THEN i + Len(CaptureAt(message, i)) + 1 ELSE 0
  ELSE MatchEnd(marker, message,
                StartIndex(PatternOf(marker).flags, li[PatternOf(marker).key]))

\* the lastIndex values after that exec / test
IndexAfter(marker, message, li) ==
  [li EXCEPT ![PatternOf(marker).key] =
     LastIndexAfter(PatternOf(marker).flags, @, EndOf(marker, message, li))]

\* patterns.major?.test(message), and minor and patch
TestPattern(marker, message) == EndOf(marker, message, lastIndex) > 0

\* a loop that does not stop at an explicit version
RECURSIVE AnalyzeNoBreak(_, _)
AnalyzeNoBreak(cs, bumps) ==
  IF cs = <<>> THEN bumps
  ELSE LET m == Head(cs).message
       IN IF VersionSetExec(m) # <<>>
          THEN AnalyzeNoBreak(Tail(cs), [bumps EXCEPT !.explicitVersion = VersionSetExec(m)])
          ELSE IF TestPattern("[major]", m)
          THEN AnalyzeNoBreak(Tail(cs), [bumps EXCEPT !.major = @ + 1])
          ELSE IF TestPattern("[minor]", m)
          THEN AnalyzeNoBreak(Tail(cs), [bumps EXCEPT !.minor = @ + 1])
          ELSE IF TestPattern("[patch]", m)
          THEN AnalyzeNoBreak(Tail(cs), [bumps EXCEPT !.patch = @ + 1])
          ELSE AnalyzeNoBreak(Tail(cs), bumps)

\* a loop that counts every pattern a message matches
RECURSIVE AnalyzeEveryPattern(_, _)
AnalyzeEveryPattern(cs, bumps) ==
  IF cs = <<>> THEN bumps
  ELSE LET m == Head(cs).message
           Hit(marker) == IF TestPattern(marker, m) THEN 1 ELSE 0
       IN IF VersionSetExec(m) # <<>>
          THEN [bumps EXCEPT !.explicitVersion = VersionSetExec(m)]
          ELSE AnalyzeEveryPattern(Tail(cs),
                 [bumps EXCEPT !.major = @ + Hit("[major]"),
                               !.minor = @ + Hit("[minor]"),
                               !.patch = @ + Hit("[patch]")])

\* the lastIndex values after the exec / test of each pattern of ps, in order
RECURSIVE IndexThrough(_, _, _)
IndexThrough(ps, message, li) ==
  IF ps = <<>> THEN li
  ELSE IndexThrough(Tail(ps), message, IndexAfter(Head(ps), message, li))

\* analyzeCommitBumps: the loop over the commits, from the bumps counted so
\* far and the lastIndex values li of the pattern objects; each exec and test
\* starts where the pattern object stands and leaves it where it ended
RECURSIVE AnalyzeWith(_, _, _)
AnalyzeWith(cs, bumps, li) ==
  IF cs = <<>> THEN [bumps |-> bumps, lastIndex |-> li]
  ELSE LET m == Head(cs).message
       IN IF EndOf("[v:", m, li) > 0
          THEN [bumps |-> [bumps EXCEPT !.explicitVersion = VersionCapture(m, li)],
                lastIndex |-> IndexThrough(<<"[v:">>, m, li)]
          ELSE IF EndOf("[major]", m, IndexThrough(<<"[v:">>, m, li)) > 0
          THEN AnalyzeWith(Tail(cs), [bumps EXCEPT !.major = @ + 1],
                           IndexThrough(<<"[v:", "[major]">>, m, li))
          ELSE IF EndOf("[minor]", m, IndexThrough(<<"[v:", "[major]">>, m, li)) > 0
          THEN AnalyzeWith(Tail(cs), [bumps EXCEPT !.minor = @ + 1],
                           IndexThrough(<<"[v:", "[major]", "[minor]">>, m, li))
          ELSE IF EndOf("[patch]", m, IndexThrough(<<"[v:", "[major]", "[minor]">>, m, li)) > 0
          THEN AnalyzeWith(Tail(cs), [bumps EXCEPT !.patch = @ + 1],
                           IndexThrough(<<"[v:", "[major]", "[minor]", "[patch]">>, m, li))
          ELSE AnalyzeWith(Tail(cs), bumps,
                           IndexThrough(<<"[v:", "[major]", "[minor]", "[patch]">>, m, li))

\* the bumps of the loop, with the pattern objects as they stand
AnalyzeFrom(cs, bumps) == AnalyzeWith(cs, bumps, lastIndex).bumps

analyzeCommitBumps(cs) == AnalyzeFrom(cs, NoBumps)

\* the pattern objects after analyzeCommitBumps
LastIndexFrom(cs, li) == AnalyzeWith(cs, NoBumps, li).lastIndex

\* currentBranch.replace(/[^a-zA-Z0-9-]/g, '-').replace(/^-+|-+$/g, '')
RECURSIVE StripLeadingDashes(_)
StripLeadingDashes(s) ==
  IF s # <<>> /\ Head(s) = "-" THEN StripLeadingDashes(Tail(s)) ELSE s

\* a replace anchored at the start only
KeepTrailingDashes(s) == s

RECURSIVE StripTrailingDashes(_)
StripTrailingDashes(s) ==
  IF s # <<>> /\ s[Len(s)] = "-"
  THEN StripTrailingDashes(SubSeq(s, 1, Len(s) - 1)) ELSE s

Sanitize(name) ==
  StripTrailingDashes(StripLeadingDashes(
    [i \in 1..Len(name) |->
       IF name[i] \in Letters \cup Digits \cup {"-"} THEN name[i] ELSE "-"]))

\* calculateVersion, the trunk branch of if (lastTag)
TrunkWithTag(tag, bumps, count, enable) ==
  IF enable /\ bumps.explicitVersion # <<>>
  THEN bumps.explicitVersion
  ELSE IF enable /\ (bumps.major > 0 \/ bumps.minor > 0)
  THEN LET v0 == SemverParse(Format(tag.version))
           v1 == [v0 EXCEPT !.major = @ + bumps.major, !.minor = @ + bumps.minor]
           v2 == IF bumps.major > 0 THEN [v1 EXCEPT !.minor = 0, !.patch = 0]
                 ELSE IF bumps.minor > 0 THEN [v1 EXCEPT !.patch = 0]
                 ELSE v1
       IN Format([v2 EXCEPT !.patch = @ + bumps.patch])
  ELSE LET v0 == SemverParse(Format(tag.version))
       IN Format([v0 EXCEPT !.patch = @ + count])

\* calculateVersion, the trunk branch of the else (no tag)
TrunkNoTag(bumps, count, enable) ==
  IF enable /\ bumps.explicitVersion # <<>>
  THEN bumps.explicitVersion
  ELSE IF enable /\ (bumps.major > 0 \/ bumps.minor > 0)
  THEN Format([ok |-> TRUE, major |-> bumps.major, minor |-> bumps.minor,
               patch |-> bumps.patch, prerelease |-> <<>>])
  ELSE <<"0", ".", "0", ".">> \o Str(count)

\* calculateVersion, the feature-branch arms
FeatureWithTag(tag, name, count) ==
  LET v0 == SemverParse(Format(tag.version))
  IN Format([v0 EXCEPT !.patch = @ + 1]) \o <<"-">> \o Sanitize(name)
       \o <<".">> \o Str(count)

FeatureNoTag(name, count) ==
  <<"0", ".", "0", ".", "1", "-">> \o Sanitize(name) \o <<".">> \o Str(count)

\* calculateVersion: the version string, from what the queries returned
ComposeVersion(tag, main, name, bumps, count, enable) ==
  IF tag # NullTag
  THEN (IF main THEN TrunkWithTag(tag, bumps, count, enable)
        ELSE FeatureWithTag(tag, name, count))
  ELSE (IF main THEN TrunkNoTag(bumps, count, enable)
        ELSE FeatureNoTag(name, count))


\* options.tagPrefix || 'v'
TagPrefix == <<"v">>

\* options.mainBranch || ['main', 'master']
MainBranches == {BranchMain, BranchMaster}

\* getVersionTags, up to the show-ref query: the tags of the listing that start
\* with the prefix and whose remainder parses, in the order of the listing
CandidateTags(tagsOutput) ==
  SelectSeq(FilterBoolean(Split(tagsOutput, "LF")),
            LAMBDA t : /\ StartsWith(t, TagPrefix)
                       /\ SemverParse(Drop(t, Len(TagPrefix))).ok)

\* ref.replace('refs/tags/', '')
StripRefsTags(ref) ==
  IF \E i \in 1..Len(ref) : ref[i] = "refs/tags/"
  THEN LET i == CHOOSE j \in 1..Len(ref) :
                  ref[j] = "refs/tags/" /\ \A k \in 1..(j - 1) : ref[k] # "refs/tags/"
       IN SubSeq(ref, 1, i - 1) \o Drop(ref, i)
  ELSE ref

\* line.trim().split(/\s+/)
SplitWhitespace(line) == FilterBoolean(Split(Trim(line), " "))

\* the commit the show-ref output gives a tag: the last line naming it, '' if none
RECURSIVE CommitOfTag(_, _, _)
CommitOfTag(tag, lines, found) ==
  IF lines = <<>> THEN found
  ELSE LET parts == SplitWhitespace(Head(lines))
       IN IF Len(parts) >= 2 /\ StripRefsTags(parts[2]) = tag
          THEN CommitOfTag(tag, Tail(lines), Head(parts[1]))
          ELSE CommitOfTag(tag, Tail(lines), found)

RECURSIVE BuildVersionTags(_, _)
BuildVersionTags(names, lines) ==
  IF names = <<>> THEN <<>>
  ELSE LET commit == CommitOfTag(Head(names), lines, "")
           v == SemverParse(Drop(Head(names), Len(TagPrefix)))
       IN (IF commit # "" /\ v.ok
           THEN <<[tag |-> Head(names), version |-> v, commit |-> commit]>>
           ELSE <<>>)
          \o BuildVersionTags(Tail(names), lines)

\* Array.prototype.sort with (a, b) => semver.rcompare(a.version, b.version):
\* a stable sort, highest version first
RECURSIVE InsertTag(_, _)
InsertTag(x, sorted) ==
  IF sorted = <<>> THEN <<x>>
  ELSE IF RCompare(Head(sorted).version, x.version) <= 0
       THEN <<Head(sorted)>> \o InsertTag(x, Tail(sorted))
       ELSE <<x>> \o sorted

RECURSIVE SortByVersionFrom(_, _)
SortByVersionFrom(ts, sorted) ==
  IF ts = <<>> THEN sorted
  ELSE SortByVersionFrom(Tail(ts), InsertTag(Head(ts), sorted))

SortByVersion(ts) == SortByVersionFrom(ts, <<>>)

\* getVersionTags, from the show-ref output on
VersionTagsOf(names, showRefOutput) ==
  SortByVersion(BuildVersionTags(names, Split(showRefOutput, "LF")))

\* a lookup that forgets reachability
FirstListed(vts, reachableOutput) == IF vts = <<>> THEN NullTag ELSE vts[1]

\* getLastVersionTag, from the tag --merged output on
FirstReachable(vts, reachableOutput) ==
  LET reachable == FilterBoolean(Split(reachableOutput, "LF"))
      Has(t) == \E i \in 1..Len(reachable) : reachable[i] = t.tag
  IN IF \E i \in 1..Len(vts) : Has(vts[i])
     THEN vts[CHOOSE i \in 1..Len(vts) :
                 Has(vts[i]) /\ \A k \in 1..(i - 1) : ~Has(vts[k])]
     ELSE NullTag


\* ------------------------------------------------- calculateVersion, by query
ScanCap == 2          \* the positive maxCommitScan the calls use

DefaultOptions == [enableCommitBumps |-> TRUE, maxCommitScan |-> <<>>, commitBumpPatterns |-> <<>>]

\* maxCommitScan: <<>> is undefined (the targeted scan), <<0>> the exhaustive
\* scan without limit, <<n>> the exhaustive scan of the newest n commits
Options ==
  [enableCommitBumps : BOOLEAN, maxCommitScan : {<<>>, <<0>>, <<ScanCap>>},
   commitBumpPatterns : {<<>>}]

\* the revision the scan and the count start after: lastTag.commit, or ''
FromRev == IF lastTag # NullTag THEN lastTag.commit ELSE ""

\* the command lines handed to spawn('git', args): parseCommandArgs splits at
\* blanks, removes quotes and drops empty words
RevWord(from, to) ==
  IF from # "" THEN SelectSeq(<<from, "..", to>>, LAMBDA t : t # "")
  ELSE IF to # "" THEN <<to>> ELSE <<>>

CmdCurrentBranch == <<<<"rev-parse">>, <<"--abbrev-ref">>, <<"HEAD">>>>

CmdCurrentCommit == <<<<"rev-parse">>, <<"HEAD">>>>

\* a tag command without the -l flag
CmdTagNamed == <<<<"tag">>, <<"v">>>>

CmdTagList == <<<<"tag">>, <<"-l">>>>

CmdShowRef(names) == <<<<"show-ref">>, <<"--tags">>>> \o names

CmdTagMerged(commit) == FilterBoolean(<<<<"tag">>, <<"--merged">>, RevWord("", commit)>>)

CmdLog(from, to, limit, grep) ==
  FilterBoolean(
    <<<<"log">>, RevWord(from, to)>>
      \o (IF limit > 0 THEN <<<<"-n">>, Str(limit)>> ELSE <<>>)
      \o (IF grep THEN <<<<"--grep=">> \o GrepPattern, <<"-E">>, <<"-i">>>> ELSE <<>>)
      \o <<<<"--format=%H%x00%B%x00">>>>)

CmdScan ==
  IF opts.maxCommitScan # <<>>
  THEN CmdLog(FromRev, currentCommit, opts.maxCommitScan[1], FALSE)
  ELSE CmdLog(FromRev, currentCommit, 0, TRUE)

CmdCount(from, to) ==
  IF from # ""
  THEN <<<<"rev-list">>, <<"--count">>, RevWord(from, to)>>
  ELSE <<<<"rev-list">>, <<"--count">>, <<"HEAD">>>>

\* a scan that forgets the trunk test
AfterTagsAnyBranch == IF opts.enableCommitBumps THEN "scan" ELSE "count"

\* a scan whatever enableCommitBumps says
AfterTagsBumpsOn == IF isMainBranch THEN "scan" ELSE "count"

\* where calculateVersion goes once lastTag is known
AfterTags == IF opts.enableCommitBumps /\ isMainBranch THEN "scan" ELSE "count"

\* a call of calculateVersion(options) starts
Invoke(o) ==
  /\ pc = "idle"
  /\ pc' = "getCurrentBranch"
  /\ opts' = o
  /\ bumpType' = ""
  /\ UNCHANGED <<bumped, failed, issued>>
  /\ UNCHANGED process
  /\ UNCHANGED repo
  /\ UNCHANGED locals

\* a call of suggestVersionBump(kind, options) starts: it awaits calculateVersion
InvokeSuggest(kind, o) ==
  /\ pc = "idle"
  /\ pc' = "getCurrentBranch"
  /\ opts' = o
  /\ bumpType' = kind
  /\ UNCHANGED <<bumped, failed, issued>>
  /\ UNCHANGED process
  /\ UNCHANGED repo
  /\ UNCHANGED locals

\* the queries a call has seen fail, after one more query
Failed(ok, query) == IF ok THEN failed ELSE failed \cup {query}

\* const currentBranch = await getCurrentBranch(cwd)
GetCurrentBranchWith(ok) ==
  /\ pc = "getCurrentBranch"
  /\ currentBranch' = (IF GitExecCode(ok, GitCurrentBranch) # <<>>
                       THEN GitExecCode(ok, GitCurrentBranch) ELSE BranchUnknown)
  /\ pc' = "getCurrentCommit"
  /\ failed' = Failed(ok, "branch")
  /\ issued' = Append(issued, CmdCurrentBranch)
  /\ UNCHANGED <<repo, opts, currentCommit, isMainBranch, tagCommits, versionTags,
                 lastTag, commits, commitBumps, commitsSinceTag, version,
                 bumpType, bumped>>
  /\ UNCHANGED process

GetCurrentBranch == GetCurrentBranchWith(TRUE)

\* const currentCommit = await getCurrentCommit(cwd); isMainBranch = ...
GetCurrentCommitWith(ok) ==
  /\ pc = "getCurrentCommit"
  /\ currentCommit' = (IF GitExecCode(ok, GitCurrentCommit) # <<>>
                       THEN Head(GitExecCode(ok, GitCurrentCommit)) ELSE "")
  /\ isMainBranch' = (currentBranch \in MainBranches)
  /\ pc' = "listTags"
  /\ failed' = Failed(ok, "head")
  /\ issued' = Append(issued, CmdCurrentCommit)
  /\ UNCHANGED <<repo, opts, currentBranch, tagCommits, versionTags,
                 lastTag, commits, commitBumps, commitsSinceTag, version,
                 bumpType, bumped>>
  /\ UNCHANGED process

GetCurrentCommit == GetCurrentCommitWith(TRUE)

\* getVersionTags: git tag -l; without candidates versionTags is [] and
\* getLastVersionTag returns null without a query
ListTagsWith(ok) ==
  /\ pc = "listTags"
  /\ tagCommits' = CandidateTags(GitExecCode(ok, GitTagList))
  /\ pc' = IF tagCommits' = <<>> THEN AfterTags ELSE "showRef"
  /\ failed' = Failed(ok, "tagList")
  /\ issued' = Append(issued, CmdTagList)
  /\ UNCHANGED <<repo, opts, currentBranch, currentCommit, isMainBranch, versionTags,
                 lastTag, commits, commitBumps, commitsSinceTag, version,
                 bumpType, bumped>>
  /\ UNCHANGED process

ListTags == ListTagsWith(TRUE)

\* getVersionTags: git show-ref --tags, the array and its sort
ShowRefWith(ok) ==
  /\ pc = "showRef"
  /\ versionTags' = VersionTagsOf(tagCommits, GitExecCode(ok, GitShowRef(tagCommits)))
  /\ pc' = IF versionTags' = <<>> THEN AfterTags ELSE "tagMerged"
  /\ failed' = Failed(ok, "showRef")
  /\ issued' = Append(issued, CmdShowRef(tagCommits))
  /\ UNCHANGED <<repo, opts, currentBranch, currentCommit, isMainBranch, tagCommits,
                 lastTag, commits, commitBumps, commitsSinceTag, version,
                 bumpType, bumped>>
  /\ UNCHANGED process

ShowRef == ShowRefWith(TRUE)

\* getLastVersionTag: git tag --merged currentCommit
TagMergedWith(ok) ==
  /\ pc = "tagMerged"
  /\ lastTag' = FirstReachable(versionTags, GitExecCode(ok, GitTagMerged(currentCommit)))
  /\ pc' = AfterTags
  /\ failed' = Failed(ok, "tagMerged")
  /\ issued' = Append(issued, CmdTagMerged(currentCommit))
  /\ UNCHANGED <<repo, opts, currentBranch, currentCommit, isMainBranch, tagCommits,
                 versionTags, commits, commitBumps, commitsSinceTag, version,
                 bumpType, bumped>>
  /\ UNCHANGED process

TagMerged == TagMergedWith(TRUE)

\* the commits the scan fetches: the exhaustive scan when maxCommitScan is
\* set, the targeted one otherwise
ScannedCommits(ok) ==
  IF opts.maxCommitScan # <<>>
  THEN getCommitMessages(ok, FromRev, currentCommit, opts.maxCommitScan[1])
  ELSE getCommitsWithBumps(ok, FromRev, currentCommit)

\* whether commitsSinceTag is commits.length, with no count query
UsesLength(cs) ==
  /\ opts.maxCommitScan # <<>>
  /\ cs # <<>>
  /\ (opts.maxCommitScan[1] = 0 \/ Len(cs) < opts.maxCommitScan[1])

\* if (enableCommitBumps && isMainBranch): the scan and analyzeCommitBumps,
\* then the version when commits.length serves as the count
ScanWith(ok) ==
  /\ pc = "scan"
  /\ commits' = ScannedCommits(ok)
  /\ commitBumps' = analyzeCommitBumps(commits')
  /\ IF UsesLength(commits')
     THEN /\ commitsSinceTag' = Len(commits')
          /\ version' = ComposeVersion(lastTag, isMainBranch, currentBranch,
                                       commitBumps', commitsSinceTag',
                                       opts.enableCommitBumps)
          /\ pc' = "done"
     ELSE /\ pc' = "count"
          /\ UNCHANGED <<commitsSinceTag, version>>
  /\ failed' = Failed(ok, "log")
  /\ issued' = Append(issued, CmdScan)
  /\ lastIndex' = LastIndexFrom(commits', lastIndex)
  /\ UNCHANGED <<repo, opts, currentBranch, currentCommit, isMainBranch, tagCommits,
                 versionTags, lastTag, bumpType, bumped>>
  /\ UNCHANGED <<previous, other, updateInterval, dots>>
  /\ UNCHANGED chunks

Scan == ScanWith(TRUE)

\* countCommits / countAllCommits: 0 when the command fails, else
\* parseInt(stdout.trim(), 10) || 0
CountOf(ok, stdout) == IF ok THEN ParseInt(Trim(stdout)) ELSE 0

\* countCommits / countAllCommits, then the version
CountWith(ok) ==
  /\ pc = "count"
  /\ commitsSinceTag' = CountOf(ok, GitRevListCount(FromRev, currentCommit))
  /\ version' = ComposeVersion(lastTag, isMainBranch, currentBranch, commitBumps,
                               commitsSinceTag', opts.enableCommitBumps)
  /\ pc' = "done"
  /\ failed' = Failed(ok, "count")
  /\ issued' = Append(issued, CmdCount(FromRev, currentCommit))
  /\ UNCHANGED <<repo, opts, currentBranch, currentCommit, isMainBranch, tagCommits,
                 versionTags, lastTag, commits, commitBumps, bumpType, bumped>>
  /\ UNCHANGED process

Count == CountWith(TRUE)

\* suggestVersionBump, after calculateVersion: semver.inc of the baseline
\* (of 0.0.0 without one); '1.0.0' when semver.inc returns null
Suggest ==
  /\ pc = "done"
  /\ bumpType # ""
  /\ bumped' = LET currentBase == IF lastTag # NullTag THEN Format(lastTag.version)
                                  ELSE <<"0", ".", "0", ".", "0">>
                   inc == Inc(SemverParse(currentBase), bumpType)
               IN IF inc.ok THEN Format(inc) ELSE <<"1", ".", "0", ".", "0">>
  /\ pc' = "suggested"
  /\ UNCHANGED <<repo, opts, bumpType, failed, issued>>
  /\ UNCHANGED process
  /\ UNCHANGED locals

\* the caller has the result; nothing of the call is kept
Return ==
  /\ \/ pc = "done" /\ bumpType = ""
     \/ pc = "suggested"
  /\ pc' = "idle"
  /\ opts' = DefaultOptions
  /\ currentBranch' = <<>>
  /\ currentCommit' = ""
  /\ isMainBranch' = FALSE
  /\ tagCommits' = <<>>
  /\ versionTags' = <<>>
  /\ lastTag' = NullTag
  /\ commits' = <<>>
  /\ commitBumps' = NoBumps
  /\ commitsSinceTag' = 0
  /\ version' = <<>>
  /\ bumpType' = ""
  /\ bumped' = <<>>
  /\ failed' = {}
  /\ issued' = <<>>
  /\ UNCHANGED process
  /\ UNCHANGED repo

Engine ==
  \/ GetCurrentBranch
  \/ GetCurrentCommit
  \/ ListTags
  \/ ShowRef
  \/ TagMerged
  \/ Scan
  \/ Count
  \/ Return

\* version resolution over repositories with one release tag, every option
Next ==
  \/ \E m \in Messages : AddCommit(m, MaxCommits)
  \/ CreateTag(TagV120, HeadHash, MaxTags)
  \/ \E b \in {BranchFeature, BranchScratch} : CreateBranch(b)
  \/ \E o \in Options : Invoke(o)
  \/ Engine

Spec == Init /\ [][Next]_vars

\* tag resolution over repositories with several tags, default options
NextTags ==
  \/ AddCommit(MsgPlain, MaxTagCommits)
  \/ \E i \in 1..Len(AllTagNames) :
        \E c \in {HeadHash, OffHead} : CreateTag(AllTagNames[i], c, MaxTagsT)
  \/ CreateBranch(BranchFeature)
  \/ Invoke(DefaultOptions)
  \/ Engine

SpecTags == Init /\ [][NextTags]_vars

\* messages with an explicit version in the long spelling and with several markers
MsgVersion       == <<"[version:", "2", ".", "5", ".", "0", "]", " ", "release">>
MsgExplicitMajor == <<"[major]", " ", "[v:", "3", ".", "0", ".", "0", "]">>
MsgMajorMinor    == <<"[minor]", " ", "then", " ", "[major]">>
MsgMinorPatch    == <<"[patch]", " ", "and", " ", "[minor]">>

AnalyzeMessages ==
  {MsgPlain, MsgMajor, MsgMinor, MsgPatch, MsgExplicit,
   MsgVersion, MsgExplicitMajor, MsgMajorMinor, MsgMinorPatch}

\* the CommitInfo lists handed to analyzeCommitBumps, newest first
AnalyzeInputs ==
  UNION {{[i \in 1..n |-> [hash |-> <<HashStr[n - i + 1]>>, message |-> f[i]]] :
            f \in [1..n -> AnalyzeMessages]} : n \in 0..MaxScanned}

\* analyzeCommitBumps on a list of commits, by itself
InitAnalyze ==
  /\ history = <<<<"Initial", " ", "commit">>>>
  /\ tags = {}
  /\ branch = BranchMain
  /\ pc = "analyze"
  /\ opts = DefaultOptions
  /\ currentBranch = <<>>
  /\ currentCommit = ""
  /\ isMainBranch = FALSE
  /\ tagCommits = <<>>
  /\ versionTags = <<>>
  /\ lastTag = NullTag
  /\ commits \in AnalyzeInputs
  /\ commitBumps = NoBumps
  /\ commitsSinceTag = 0
  /\ version = <<>>
  /\ bumpType = ""
  /\ bumped = <<>>
  /\ failed = {}
  /\ issued = <<>>
  /\ previous = NoResult
  /\ other = NoCall
  /\ lastIndex = NoMatchYet
  /\ updateInterval = FALSE
  /\ dots = 0
  /\ commitBlocks = <<>>
  /\ allCommits = <<>>
  /\ chunkStart = 0

\* commitBumps = analyzeCommitBumps(commits, bumpPatterns)
Analyze ==
  /\ pc = "analyze"
  /\ commitBumps' = analyzeCommitBumps(commits)
  /\ lastIndex' = LastIndexFrom(commits, lastIndex)
  /\ pc' = "analyzed"
  /\ UNCHANGED <<repo, opts, currentBranch, currentCommit, isMainBranch, tagCommits,
                 versionTags, lastTag, commits, commitsSinceTag, version>>
  /\ UNCHANGED caller
  /\ UNCHANGED issued
  /\ UNCHANGED <<previous, other, updateInterval, dots>>
  /\ UNCHANGED chunks

SpecAnalyze == InitAnalyze /\ [][Analyze]_vars

\* branch names over letters of both cases, a digit, the dash and characters
\* outside [a-zA-Z0-9-]
NameChars == {"a", "Z", "7", "-", "/", "_"}

BranchNames == UNION {[1..n -> NameChars] : n \in 0..MaxNameLen}

\* the feature-branch composition on a branch name, by itself
InitSanitize ==
  /\ history = <<<<"Initial", " ", "commit">>>>
  /\ tags = {}
  /\ branch = BranchMain
  /\ pc = "sanitize"
  /\ opts = DefaultOptions
  /\ currentBranch \in BranchNames
  /\ currentCommit = ""
  /\ isMainBranch = FALSE
  /\ tagCommits = <<>>
  /\ versionTags = <<>>
  /\ lastTag = NullTag
  /\ commits = <<>>
  /\ commitBumps = NoBumps
  /\ commitsSinceTag = 0
  /\ version = <<>>
  /\ bumpType = ""
  /\ bumped = <<>>
  /\ failed = {}
  /\ issued = <<>>
  /\ previous = NoResult
  /\ other = NoCall
  /\ lastIndex = NoMatchYet
  /\ updateInterval = FALSE
  /\ dots = 0
  /\ commitBlocks = <<>>
  /\ allCommits = <<>>
  /\ chunkStart = 0

\* version = `0.0.1-${ branchName }.${ commitsSinceTag }`
ComposeFeature ==
  /\ pc = "sanitize"
  /\ version' = FeatureNoTag(currentBranch, commitsSinceTag)
  /\ pc' = "sanitized"
  /\ UNCHANGED <<repo, opts, currentBranch, currentCommit, isMainBranch, tagCommits,
                 versionTags, lastTag, commits, commitBumps, commitsSinceTag>>
  /\ UNCHANGED caller
  /\ UNCHANGED issued
  /\ UNCHANGED process

SpecSanitize == InitSanitize /\ [][ComposeFeature]_vars

\* calculateVersion with one awaited query that git may fail
EngineWith(ok) ==
  \/ GetCurrentBranchWith(ok)
  \/ GetCurrentCommitWith(ok)
  \/ ListTagsWith(ok)
  \/ ShowRefWith(ok)
  \/ TagMergedWith(ok)
  \/ ScanWith(ok)
  \/ CountWith(ok)

\* version resolution when any query may exit non-zero or fail to spawn
NextFail ==
  \/ \E m \in {MsgPlain, MsgMajor} : AddCommit(m, MaxFailCommits)
  \/ CreateTag(TagV120, HeadHash, MaxTags)
  \/ CreateBranch(BranchFeature)
  \/ \E o \in {DefaultOptions, [DefaultOptions EXCEPT !.maxCommitScan = <<0>>]} : Invoke(o)
  \/ \E ok \in BOOLEAN : EngineWith(ok)
  \/ Return

SpecFail == Init /\ [][NextFail]_vars

\* the kinds suggestVersionBump is called with: the three of its signature and
\* one that is none of them (the command line casts any word to the type)
BumpKinds == {"major", "minor", "patch", "bogus"}

\* suggestVersionBump over repositories with a reachable and an unreachable tag
NextSuggest ==
  \/ \E m \in {MsgPlain, MsgMajor, MsgExplicit} : AddCommit(m, MaxSuggestCommits)
  \/ CreateTag(TagV120, HeadHash, MaxTagsT)
  \/ CreateTag(TagV200, OffHead, MaxTagsT)
  \/ CreateBranch(BranchFeature)
  \/ \E kind \in BumpKinds :
        \E o \in {DefaultOptions, [DefaultOptions EXCEPT !.maxCommitScan = <<0>>]} :
           InvokeSuggest(kind, o)
  \/ Engine
  \/ Suggest

SpecSuggest == Init /\ [][NextSuggest]_vars

\* position of the returned baseline's commit in the history; 0 without one
BaselineIndex == IF lastTag # NullTag THEN CommitIndex(lastTag.commit) ELSE 0

\* createTempGitRepo once more: the next call runs in a new repository
NewRepo ==
  /\ pc = "idle"
  /\ Len(history) > 1 \/ tags # {}
  /\ history' = <<<<"Initial", " ", "commit">>>>
  /\ tags' = {}
  /\ branch' = BranchMain
  /\ UNCHANGED <<pc, opts>>
  /\ UNCHANGED locals
  /\ UNCHANGED caller
  /\ UNCHANGED issued
  /\ UNCHANGED process

\* the caller keeps the VersionInfo of the finished call, and the history it
\* was computed on, to compare the next result with
Remember ==
  /\ pc = "done"
  /\ bumpType = ""
  /\ previous' = [called |-> TRUE, opts |-> opts, history |-> history,
                  base |-> BaselineIndex, commitBumps |-> commitBumps,
                  commitsSinceTag |-> commitsSinceTag, version |-> version]
  /\ pc' = "idle"
  /\ opts' = DefaultOptions
  /\ currentBranch' = <<>>
  /\ currentCommit' = ""
  /\ isMainBranch' = FALSE
  /\ tagCommits' = <<>>
  /\ versionTags' = <<>>
  /\ lastTag' = NullTag
  /\ commits' = <<>>
  /\ commitBumps' = NoBumps
  /\ commitsSinceTag' = 0
  /\ version' = <<>>
  /\ bumpType' = ""
  /\ bumped' = <<>>
  /\ failed' = {}
  /\ issued' = <<>>
  /\ UNCHANGED repo
  /\ UNCHANGED <<other, lastIndex, updateInterval, dots>>
  /\ UNCHANGED chunks

\* successive calls on trunk, in one repository as it grows and in several
\* repositories, each result kept for the next call
NextHistory ==
  \/ \E m \in {MsgPlain, MsgMajor, MsgExplicit} : AddCommit(m, MaxHistCommits)
  \/ CreateTag(TagV120, HeadHash, MaxTags)
  \/ NewRepo
  \/ \E o \in {DefaultOptions, [DefaultOptions EXCEPT !.maxCommitScan = <<0>>]} : Invoke(o)
  \/ GetCurrentBranch
  \/ GetCurrentCommit
  \/ ListTags
  \/ ShowRef
  \/ TagMerged
  \/ Scan
  \/ Count
  \/ Remember

SpecHistory == Init /\ [][NextHistory]_vars

\* Two calls in flight on one event loop. A call runs until its next await;
\* while git answers, the other call runs. The variables of calculateVersion
\* are the running call's; the suspended call's are in other. The four
\* pattern objects are the module's, each call uses the same ones.
Swap ==
  /\ pc # "idle" \/ other.pc # "idle"
  /\ other' = [pc |-> pc, opts |-> opts, currentBranch |-> currentBranch,
               currentCommit |-> currentCommit, isMainBranch |-> isMainBranch,
               tagCommits |-> tagCommits, versionTags |-> versionTags,
               lastTag |-> lastTag, commits |-> commits, commitBumps |-> commitBumps,
               commitsSinceTag |-> commitsSinceTag, version |-> version,
               bumpType |-> bumpType, bumped |-> bumped, failed |-> failed,
               issued |-> issued]
  /\ pc' = other.pc
  /\ opts' = other.opts
  /\ currentBranch' = other.currentBranch
  /\ currentCommit' = other.currentCommit
  /\ isMainBranch' = other.isMainBranch
  /\ tagCommits' = other.tagCommits
  /\ versionTags' = other.versionTags
  /\ lastTag' = other.lastTag
  /\ commits' = other.commits
  /\ commitBumps' = other.commitBumps
  /\ commitsSinceTag' = other.commitsSinceTag
  /\ version' = other.version
  /\ bumpType' = other.bumpType
  /\ bumped' = other.bumped
  /\ failed' = other.failed
  /\ issued' = other.issued
  /\ UNCHANGED repo
  /\ UNCHANGED <<previous, lastIndex, updateInterval, dots>>
  /\ UNCHANGED chunks

\* a pattern object the caller creates with the g flag: /\[major\]/gi
CallerFlags == {"g", "i"}

\* the options values of the concurrent calls; the caller's pattern object is
\* one object, passed to each call that names it
ConcOptions ==
  {DefaultOptions,
   [DefaultOptions EXCEPT !.maxCommitScan = <<0>>],
   [DefaultOptions EXCEPT !.maxCommitScan = <<0>>, !.commitBumpPatterns = <<CallerFlags>>]}

\* concurrent calls on a repository that stays as it is while a call runs
NextConcurrent ==
  \/ other.pc = "idle" /\ \E m \in {MsgPlain, MsgMajor, MsgExplicit} : AddCommit(m, MaxConcCommits)
  \/ other.pc = "idle" /\ CreateTag(TagV120, HeadHash, MaxTags)
  \/ other.pc = "idle" /\ CreateBranch(BranchFeature)
  \/ \E o \in ConcOptions : Invoke(o)
  \/ GetCurrentBranch
  \/ GetCurrentCommit
  \/ ListTags
  \/ ShowRef
  \/ TagMerged
  \/ Scan
  \/ Count
  \/ Return
  \/ Swap

SpecConcurrent == Init /\ [][NextConcurrent]_vars

\* calculateVersion by event: the chunk loop of getCommitsWithBumps with its
\* timers, and countCommits / countAllCommits from spawn to close or error
\* with the progress timer in between.
PARSE_CHUNK_SIZE == 1000

\* output.split('\x00\x00').filter(Boolean) of the targeted log; [] for empty output
TargetedBlocks(ok) ==
  LET output == GitExecCode(ok, GitLog(FromRev, currentCommit, 0, TRUE))
  IN IF output = <<>> THEN <<>> ELSE FilterBoolean(SplitNulNul(output))

\* commitBlocks.slice(i, i + PARSE_CHUNK_SIZE)
Chunk(blocks, i) ==
  SubSeq(blocks, i + 1,
         IF i + PARSE_CHUNK_SIZE < Len(blocks) THEN i + PARSE_CHUNK_SIZE ELSE Len(blocks))

\* getCommitsWithBumps, the log has answered with blocks: the first chunk is
\* parsed, then await new Promise(resolve => setTimeout(resolve, 5))
ScanLogWith(ok) ==
  /\ pc = "scan"
  /\ opts.maxCommitScan = <<>>
  /\ TargetedBlocks(ok) # <<>>
  /\ commitBlocks' = TargetedBlocks(ok)
  /\ chunkStart' = 0
  /\ allCommits' = ParseBlocks(Chunk(commitBlocks', 0))
  /\ pc' = "chunkDelay"
  /\ failed' = Failed(ok, "log")
  /\ issued' = Append(issued, CmdScan)
  /\ UNCHANGED <<repo, opts, bumpType, bumped>>
  /\ UNCHANGED locals
  /\ UNCHANGED <<previous, other, lastIndex, updateInterval, dots>>

\* the 5 ms timer fires: i += PARSE_CHUNK_SIZE; the next chunk and its timer,
\* or the loop ends, getCommitsWithBumps returns and analyzeCommitBumps runs
ChunkTimer ==
  /\ pc = "chunkDelay"
  /\ chunkStart' = chunkStart + PARSE_CHUNK_SIZE
  /\ IF chunkStart' < Len(commitBlocks)
     THEN /\ allCommits' = allCommits \o ParseBlocks(Chunk(commitBlocks, chunkStart'))
          /\ pc' = "chunkDelay"
          /\ UNCHANGED <<commits, commitBumps, lastIndex>>
     ELSE /\ commits' = allCommits
          /\ commitBumps' = analyzeCommitBumps(commits')
          /\ lastIndex' = LastIndexFrom(commits', lastIndex)
          /\ pc' = "count"
          /\ UNCHANGED allCommits
  /\ UNCHANGED <<repo, opts, currentBranch, currentCommit, isMainBranch, tagCommits,
                 versionTags, lastTag, commitsSinceTag, version>>
  /\ UNCHANGED caller
  /\ UNCHANGED <<issued, commitBlocks, previous, other, updateInterval, dots>>

\* countCommits / countAllCommits: spawn('git', args); let dots = 0;
\* updateInterval = setInterval(..., 500)
CountSpawn ==
  /\ pc = "count"
  /\ pc' = "counting"
  /\ issued' = Append(issued, CmdCount(FromRev, currentCommit))
  /\ updateInterval' = TRUE
  /\ dots' = 0
  /\ UNCHANGED <<repo, opts>>
  /\ UNCHANGED locals
  /\ UNCHANGED caller
  /\ UNCHANGED <<previous, other, lastIndex>>
  /\ UNCHANGED chunks

\* the interval fires: dots = (dots + 1) % 4; onProgress('Counting commits...')
CountTick ==
  /\ updateInterval
  /\ dots' = (dots + 1) % 4
  /\ UNCHANGED <<repo, pc, opts, issued>>
  /\ UNCHANGED locals
  /\ UNCHANGED caller
  /\ UNCHANGED <<previous, other, lastIndex, updateInterval>>
  /\ UNCHANGED chunks

\* a close handler that resolves and leaves the interval running
CountCloseKeepsTimer(ok) ==
  /\ pc = "counting"
  /\ commitsSinceTag' = CountOf(ok, GitRevListCount(FromRev, currentCommit))
  /\ version' = ComposeVersion(lastTag, isMainBranch, currentBranch, commitBumps,
                               commitsSinceTag', opts.enableCommitBumps)
  /\ pc' = "done"
  /\ failed' = Failed(ok, "count")
  /\ UNCHANGED <<repo, opts, currentBranch, currentCommit, isMainBranch, tagCommits,
                 versionTags, lastTag, commits, commitBumps, bumpType, bumped>>
  /\ UNCHANGED <<issued, previous, other, lastIndex, updateInterval, dots>>
  /\ UNCHANGED chunks

\* proc.on('close') with code 0 (ok), proc.on('close') with another code or
\* proc.on('error'): clearInterval(updateInterval), resolve; then the version
CountCloseWith(ok) ==
  /\ pc = "counting"
  /\ updateInterval' = FALSE
  /\ commitsSinceTag' = CountOf(ok, GitRevListCount(FromRev, currentCommit))
  /\ version' = ComposeVersion(lastTag, isMainBranch, currentBranch, commitBumps,
                               commitsSinceTag', opts.enableCommitBumps)
  /\ pc' = "done"
  /\ failed' = Failed(ok, "count")
  /\ UNCHANGED <<repo, opts, currentBranch, currentCommit, isMainBranch, tagCommits,
                 versionTags, lastTag, commits, commitBumps, bumpType, bumped>>
  /\ UNCHANGED <<issued, previous, other, lastIndex, dots>>
  /\ UNCHANGED chunks

\* what the event loop runs once git has answered or a 5 ms timer is due
Resume ==
  \/ \E ok \in BOOLEAN : GetCurrentBranchWith(ok)
  \/ \E ok \in BOOLEAN : GetCurrentCommitWith(ok)
  \/ \E ok \in BOOLEAN : ListTagsWith(ok)
  \/ \E ok \in BOOLEAN : ShowRefWith(ok)
  \/ \E ok \in BOOLEAN : TagMergedWith(ok)
  \/ \E ok \in BOOLEAN : ScanLogWith(ok)
  \/ \E ok \in BOOLEAN :
        (opts.maxCommitScan # <<>> \/ TargetedBlocks(ok) = <<>>) /\ ScanWith(ok)
  \/ ChunkTimer
  \/ CountSpawn
  \/ \E ok \in BOOLEAN : CountCloseWith(ok)

NextProgress ==
  \/ \E m \in {MsgPlain, MsgSyntax} : AddCommit(m, MaxProgCommits)
  \/ CreateTag(TagV120, HeadHash, MaxTags)
  \/ CreateBranch(BranchFeature)
  \/ \E o \in {DefaultOptions, [DefaultOptions EXCEPT !.maxCommitScan = <<0>>],
                [DefaultOptions EXCEPT !.enableCommitBumps = FALSE]} : Invoke(o)
  \/ Resume
  \/ CountTick
  \/ Return

\* where a call waits for git or for a 5 ms timer, and where a call can be
Waiting ==
  {"getCurrentBranch", "getCurrentCommit", "listTags", "showRef", "tagMerged",
   "scan", "chunkDelay", "count", "counting"}

Positions == Waiting \cup {"idle", "done"}

\* what a step of Resume does to the position of the call: Resume is possible
\* exactly where the call waits, and it moves pc or the chunk loop's i
Advance ==
  /\ pc \in Waiting
  /\ pc' \in Positions
  /\ chunkStart' \in {0, chunkStart, chunkStart + PARSE_CHUNK_SIZE}

\* every spawned git process emits close or error and every 5 ms timer fires:
\* a call that waits is resumed. Nothing is asked of the 500 ms interval, of
\* the caller or of the repository.
SpecProgress == Init /\ [][NextProgress]_vars /\ WF_<<pc, chunkStart>>(Advance)


\* ============================================================== the claims
\* What the repository holds, read off the repository itself: the claims
\* compare the result of a finished call with these.

\* position of the baseline's commit; 0 without a baseline
BaseIndex == IF lastTag # NullTag THEN CommitIndex(lastTag.commit) ELSE 0

\* the commits of the range (baseline, HEAD]
InRange == (BaseIndex + 1)..Len(history)

ExplicitCommits == {i \in InRange : VersionSetExec(history[i]) # <<>>}

MarkerCommits(marker) ==
  {i \in InRange : VersionSetExec(history[i]) = <<>> /\ TestPattern(marker, history[i])}

NewestOf(S) == CHOOSE i \in S : \A j \in S : j <= i

\* a call on a trunk branch with commit bumps enabled has returned
TrunkBumpsDone == pc = "done" /\ isMainBranch /\ opts.enableCommitBumps

\* the baseline is a bare X.Y.Z
BareBaseline == lastTag # NullTag /\ lastTag.version.prerelease = <<>>

\* "a.b.c"
Dotted(a, b, c) == Str(a) \o <<".">> \o Str(b) \o <<".">> \o Str(c)

\* C1: on trunk with bumps enabled, when a commit of the range carries an
\* explicit-version marker, the version is exactly the version of the newest
\* such commit.
C1_ExplicitWins ==
  (TrunkBumpsDone /\ ExplicitCommits # {})
    => version = VersionSetExec(history[NewestOf(ExplicitCommits)])

\* C2: on trunk, when the newest explicit-version commit sets a.b.c and the k
\* commits after it carry no marker, the version is a.b.(c+k).
C2_PatchAfterExplicit ==
  (/\ TrunkBumpsDone
   /\ ExplicitCommits # {}
   /\ \A i \in InRange : i > NewestOf(ExplicitCommits) => history[i] = MsgPlain)
    => LET e == SemverParse(VersionSetExec(history[NewestOf(ExplicitCommits)]))
           k == Len(history) - NewestOf(ExplicitCommits)
       IN version = Dotted(e.major, e.minor, e.patch + k)

\* C3: on trunk with baseline X.Y.Z and no explicit marker, m > 0 major-marker
\* commits and p patch-marker commits give (X+m).0.p.
C3_MajorResets ==
  (/\ TrunkBumpsDone /\ BareBaseline
   /\ ExplicitCommits = {}
   /\ MarkerCommits("[major]") # {})
    => version = Dotted(lastTag.version.major + Cardinality(MarkerCommits("[major]")),
                        0, Cardinality(MarkerCommits("[patch]")))

\* C4: on trunk with baseline X.Y.Z, no explicit and no major marker, n > 0
\* minor-marker commits and p patch-marker commits give X.(Y+n).p.
C4_MinorResets ==
  (/\ TrunkBumpsDone /\ BareBaseline
   /\ ExplicitCommits = {}
   /\ MarkerCommits("[major]") = {}
   /\ MarkerCommits("[minor]") # {})
    => version = Dotted(lastTag.version.major,
                        lastTag.version.minor + Cardinality(MarkerCommits("[minor]")),
                        Cardinality(MarkerCommits("[patch]")))

\* C5: on trunk with baseline X.Y.Z, p >= 1 patch-marker commits and no other
\* marker give X.Y.(Z+p), whatever the number of unmarked commits.
C5_PatchPerMarker ==
  (/\ TrunkBumpsDone /\ BareBaseline
   /\ ExplicitCommits = {}
   /\ MarkerCommits("[major]") = {}
   /\ MarkerCommits("[minor]") = {}
   /\ MarkerCommits("[patch]") # {})
    => version = Dotted(lastTag.version.major, lastTag.version.minor,
                        lastTag.version.patch + Cardinality(MarkerCommits("[patch]")))

\* C6: on trunk, when no commit of the range carries a marker, the version is
\* X.Y.(Z+k) for k commits since the baseline X.Y.Z, and 0.0.n without a tag.
C6_CommitCountFallback ==
  (/\ pc = "done" /\ isMainBranch
   /\ (lastTag # NullTag => lastTag.version.prerelease = <<>>)
   /\ ExplicitCommits = {}
   /\ MarkerCommits("[major]") = {}
   /\ MarkerCommits("[minor]") = {}
   /\ MarkerCommits("[patch]") = {})
    => version = (IF lastTag # NullTag
                  THEN Dotted(lastTag.version.major, lastTag.version.minor,
                              lastTag.version.patch + Len(history) - BaseIndex)
                  ELSE Dotted(0, 0, Len(history)))

\* C7: without a baseline the trunk version of a tally is what the rules with a
\* baseline give from 0.0.0: m.0.p with m > 0 major markers, 0.n.p with only
\* n > 0 minor markers.
C7_NoBaselineSameRules ==
  (/\ TrunkBumpsDone /\ lastTag = NullTag
   /\ commitBumps.explicitVersion = <<>>)
    => /\ commitBumps.major > 0
            => version = Dotted(commitBumps.major, 0, commitBumps.patch)
       /\ (commitBumps.major = 0 /\ commitBumps.minor > 0)
            => version = Dotted(0, commitBumps.minor, commitBumps.patch)

\* C8: on trunk with baseline X.Y.Z, m > 0 major-marker commits give (X+m).0.0,
\* also when the range holds minor-marker and patch-marker commits.
C8_MajorResetsPatch ==
  (/\ TrunkBumpsDone /\ BareBaseline
   /\ ExplicitCommits = {}
   /\ MarkerCommits("[major]") # {})
    => version = Dotted(lastTag.version.major + Cardinality(MarkerCommits("[major]")),
                        0, 0)

\* the branch name with every character outside [a-zA-Z0-9-] replaced by "-"
\* and without the "-" at its ends
SanitizedName(name) ==
  LET mapped == [i \in 1..Len(name) |->
                   IF name[i] \in Letters \cup Digits \cup {"-"} THEN name[i] ELSE "-"]
      keep == {i \in 1..Len(name) : mapped[i] # "-"}
  IN IF keep = {} THEN <<>>
     ELSE SubSeq(mapped, CHOOSE i \in keep : \A j \in keep : i <= j,
                         CHOOSE i \in keep : \A j \in keep : j <= i)

\* C9: on a branch B that is not a trunk branch the version is
\* X.Y.(Z+1)-sanitize(B).n for n commits since the baseline X.Y.Z, and
\* 0.0.1-sanitize(B).n without a baseline; the markers of the commits never
\* change it and the reported tally is all zero.
C9_FeaturePrerelease ==
  (/\ pc = "done"
   /\ branch \notin MainBranches
   /\ (lastTag # NullTag => lastTag.version.prerelease = <<>>))
    => /\ commitBumps = NoBumps
       /\ version =
            (IF lastTag # NullTag
             THEN Dotted(lastTag.version.major, lastTag.version.minor,
                         lastTag.version.patch + 1)
             ELSE Dotted(0, 0, 1))
            \o <<"-">> \o SanitizedName(branch)
            \o <<".">> \o Str(Len(history) - BaseIndex)

\* a call on a feature branch returned, bumps enabled and every commit read,
\* with a baseline and marker commits after it
C9_Witness ==
  /\ pc = "done"
  /\ branch = BranchScratch
  /\ opts = [enableCommitBumps |-> TRUE, maxCommitScan |-> <<0>>, commitBumpPatterns |-> <<>>]
  /\ lastTag # NullTag
  /\ ExplicitCommits # {}
  /\ MarkerCommits("[major]") # {}

\* the tags of the repository that start with the prefix, whose remainder
\* parses as a version, and whose commit is reachable from HEAD
EligibleTags ==
  {t \in tags : /\ StartsWith(t.tag, TagPrefix)
                /\ SemverParse(Drop(t.tag, Len(TagPrefix))).ok
                /\ CommitIndex(t.commit) >= 1}

VersionOfTag(t) == SemverParse(Drop(t.tag, Len(TagPrefix)))

\* semver precedence: by major, minor, patch; a prerelease below its release
VersionBelow(a, b) ==
  \/ a.major < b.major
  \/ a.major = b.major /\ a.minor < b.minor
  \/ a.major = b.major /\ a.minor = b.minor /\ a.patch < b.patch
  \/ /\ a.major = b.major /\ a.minor = b.minor /\ a.patch = b.patch
     /\ a.prerelease # <<>> /\ b.prerelease = <<>>

\* C10: the baseline is the highest-semver tag among the tags that start with
\* the prefix, parse as a version and are reachable from HEAD; a higher tag
\* that is not reachable is never chosen; there is no baseline exactly when no
\* such tag exists.
C10_HighestReachableTag ==
  pc \in {"scan", "count", "done"}
    => IF EligibleTags = {}
       THEN lastTag = NullTag
       ELSE /\ [tag |-> lastTag.tag, commit |-> lastTag.commit] \in EligibleTags
            /\ lastTag.version = VersionOfTag(lastTag)
            /\ \A t \in EligibleTags : ~VersionBelow(lastTag.version, VersionOfTag(t))

\* a call resolved v1.2.0 while the higher v2.0.0 sits on a commit HEAD does
\* not reach and a tag without the prefix is reachable
C10_Witness ==
  /\ pc = "done"
  /\ lastTag.tag = TagV120
  /\ [tag |-> TagV200, commit |-> OffHead] \in tags
  /\ \E t \in tags : t.tag = TagR900 /\ CommitIndex(t.commit) >= 1

\* a version string of the bare form major.minor.patch
IsBare(s) ==
  LET v == SemverParse(s)
  IN v.ok /\ v.prerelease = <<>> /\ s = Dotted(v.major, v.minor, v.patch)

\* C11: tag resolution keeps only the tags whose remainder after the prefix is
\* a bare major.minor.patch; a tag with a prerelease remainder is discarded and
\* never becomes the baseline, so every trunk version is a bare major.minor.patch.
C11_BareTagsOnly ==
  /\ \A i \in 1..Len(versionTags) : IsBare(Drop(versionTags[i].tag, Len(TagPrefix)))
  /\ lastTag # NullTag => IsBare(Drop(lastTag.tag, Len(TagPrefix)))
  /\ (pc = "done" /\ isMainBranch) => IsBare(version)

\* C12: suggestVersionBump called with a kind other than major, minor or
\* patch reports an error to its caller and returns no version string.
C12_InvalidKindRejected ==
  (pc = "suggested" /\ bumpType \notin {"major", "minor", "patch"}) => bumped = <<>>

\* the version of the highest eligible tag of the repository; 0.0.0 without one
TrueBaseline ==
  IF EligibleTags = {} THEN [NullVer EXCEPT !.ok = TRUE]
  ELSE VersionOfTag(CHOOSE t \in EligibleTags :
                      \A u \in EligibleTags : ~VersionBelow(VersionOfTag(t), VersionOfTag(u)))

\* C19: suggestVersionBump(kind) returns the semver increment of kind applied
\* to the baseline version, to 0.0.0 without a baseline; branch, commit
\* messages and commit count play no part.
C19_SuggestFromBaseline ==
  (pc = "suggested" /\ TrueBaseline.prerelease = <<>>)
    => LET b == TrueBaseline
       IN /\ bumpType = "major" => bumped = Dotted(b.major + 1, 0, 0)
          /\ bumpType = "minor" => bumped = Dotted(b.major, b.minor + 1, 0)
          /\ bumpType = "patch" => bumped = Dotted(b.major, b.minor, b.patch + 1)

\* a minor suggestion returned on a feature branch, with a baseline, a higher
\* tag out of reach, and an explicit-version commit after the baseline
C19_Witness ==
  /\ pc = "suggested"
  /\ bumpType = "minor"
  /\ branch = BranchFeature
  /\ lastTag # NullTag
  /\ [tag |-> TagV200, commit |-> OffHead] \in tags
  /\ ExplicitCommits # {}

\* C13: whatever queries fail, calculateVersion returns a VersionInfo and does
\* not throw: a failed branch query gives branch "unknown", a failed tag-list,
\* tag-commit or reachability query gives no baseline, a failed count gives
\* commitsSinceTag = 0 and a failed log gives the all-zero tally.  The
\* baseline's version string always parses again, so the non-null assertions
\* on semver.parse hold.
C13_FailuresDegrade ==
  /\ lastTag # NullTag => SemverParse(Format(lastTag.version)).ok
  /\ pc = "done"
       => /\ version # <<>>
          /\ "branch" \in failed => currentBranch = BranchUnknown
          /\ failed \cap {"tagList", "showRef", "tagMerged"} # {} => lastTag = NullTag
          /\ "count" \in failed => commitsSinceTag = 0
          /\ "log" \in failed => commitBumps = NoBumps

\* a trunk call returned although the reachability query, the log and the count
\* failed in a repository with a tag
C13_Witness ==
  /\ pc = "done"
  /\ isMainBranch
  /\ tags # {}
  /\ {"tagMerged", "log", "count"} \subseteq failed

\* a message with an explicit-version marker or a bump marker
HasMarker(message) ==
  \/ VersionSetExec(message) # <<>>
  \/ \E marker \in {"[major]", "[minor]", "[patch]"} : TestPattern(marker, message)

\* the commit at position i of the history is among the scanned commits
Fetched(i) == \E k \in 1..Len(commits) : commits[k].hash = <<HashStr[i]>>

\* C14: the targeted scan (maxCommitScan undefined) fetches every commit of the
\* range whose message matches a configured bump pattern or the
\* explicit-version marker.
C14_TargetedFetchesMarkers ==
  (TrunkBumpsDone /\ opts.maxCommitScan = <<>>)
    => \A i \in InRange : HasMarker(history[i]) => Fetched(i)

\* the scanned commits with an explicit-version marker, by position (1 = newest)
ScannedExplicit == {k \in 1..Len(commits) : VersionSetExec(commits[k].message) # <<>>}

\* the scanned commits strictly newer than the newest explicit-version commit;
\* all of them without one
NewestScannedExplicit ==
  CHOOSE k \in ScannedExplicit : \A j \in ScannedExplicit : k <= j

NewerThanExplicit ==
  IF ScannedExplicit = {} THEN 1..Len(commits) ELSE 1..(NewestScannedExplicit - 1)

Matches(marker, k) == TestPattern(marker, commits[k].message)

\* C15: the aggregation stops at the newest commit with an explicit-version
\* marker: explicitVersion is that commit's version, and the counters count
\* exactly the marker commits strictly newer than it (all marker commits
\* without an explicit marker), none at or older than it.
C15_StopsAtNewestExplicit ==
  pc = "analyzed"
    => /\ commitBumps.explicitVersion =
            (IF ScannedExplicit = {} THEN <<>>
             ELSE VersionSetExec(commits[NewestScannedExplicit].message))
       /\ commitBumps.major + commitBumps.minor + commitBumps.patch =
            Cardinality({k \in NewerThanExplicit :
                           \E marker \in {"[major]", "[minor]", "[patch]"} : Matches(marker, k)})

\* two explicit versions with marker commits before, between and after them
C15_Witness ==
  /\ pc = "analyzed"
  /\ Len(commits) = 3
  /\ commits[1].message = MsgMinor
  /\ commits[2].message = MsgVersion
  /\ commits[3].message = MsgExplicitMajor

\* C16: each scanned commit adds to at most one counter, by the priority
\* explicit > major > minor > patch: a message matching several patterns counts
\* for the highest only, a message with an explicit-version marker for none,
\* and major + minor + patch is at most the number of commits scanned.
C16_OneFieldPerCommit ==
  pc = "analyzed"
    => /\ commitBumps.major =
            Cardinality({k \in NewerThanExplicit : Matches("[major]", k)})
       /\ commitBumps.minor =
            Cardinality({k \in NewerThanExplicit :
                           ~Matches("[major]", k) /\ Matches("[minor]", k)})
       /\ commitBumps.patch =
            Cardinality({k \in NewerThanExplicit :
                           /\ ~Matches("[major]", k) /\ ~Matches("[minor]", k)
                           /\ Matches("[patch]", k)})
       /\ commitBumps.major + commitBumps.minor + commitBumps.patch <= Len(commits)

\* messages with two markers each, and one with a marker beside an explicit version
C16_Witness ==
  /\ pc = "analyzed"
  /\ Len(commits) = 3
  /\ commits[1].message = MsgMajorMinor
  /\ commits[2].message = MsgMinorPatch
  /\ commits[3].message = MsgExplicitMajor

\* C17: commitsSinceTag of a result is git's count of the commits of the range
\* (baseline, HEAD], of all commits reachable from HEAD without a baseline, for
\* every strategy and cap.
C17_CountIsRangeCount ==
  pc = "done" => commitsSinceTag = Len(history) - BaseIndex

\* C18: with enableCommitBumps = false the trunk version is the commit-count
\* fallback X.Y.(Z + commitsSinceTag), 0.0.commitCount without a baseline,
\* whatever markers the commits carry, and the tally is all zero.
C18_BumpsDisabled ==
  (/\ pc = "done" /\ isMainBranch /\ ~opts.enableCommitBumps
   /\ (lastTag # NullTag => lastTag.version.prerelease = <<>>))
    => /\ commitBumps = NoBumps
       /\ commitsSinceTag = Len(history) - BaseIndex
       /\ version = (IF lastTag # NullTag
                     THEN Dotted(lastTag.version.major, lastTag.version.minor,
                                 lastTag.version.patch + Len(history) - BaseIndex)
                     ELSE Dotted(0, 0, Len(history)))

\* a trunk call with bumps disabled returned, every commit read, with a
\* baseline and [major] and explicit-version commits after it
C18_Witness ==
  /\ pc = "done"
  /\ isMainBranch
  /\ opts = [enableCommitBumps |-> FALSE, maxCommitScan |-> <<0>>, commitBumpPatterns |-> <<>>]
  /\ lastTag # NullTag
  /\ ExplicitCommits # {}
  /\ MarkerCommits("[major]") # {}

\* C20: branch-name sanitization is total and idempotent: sanitize(sanitize(s))
\* = sanitize(s), and sanitize(s) has no character outside [A-Za-z0-9-] and
\* neither starts nor ends with "-".
C20_SanitizeIdempotent ==
  pc = "sanitized"
    => LET r == Sanitize(currentBranch)
       IN /\ version = <<"0", ".", "0", ".", "1", "-">> \o r \o <<".", "0">>
          /\ Sanitize(r) = r
          /\ \A i \in 1..Len(r) : r[i] \in Letters \cup Digits \cup {"-"}
          /\ r # <<>> => (r[1] # "-" /\ r[Len(r)] # "-")

\* a name with characters to replace and dashes at both ends went through
C20_Witness ==
  /\ pc = "sanitized"
  /\ currentBranch = <<"-", "Z", "/", "_">>
  /\ version = <<"0", ".", "0", ".", "1", "-", "Z", ".", "0">>

\* the commits the log of an exhaustive scan lists, by position in the history,
\* newest first: the range, cut to the newest maxCommitScan when that is positive
LoggedCommits ==
  LET n == Len(history) - BaseIndex
      cap == opts.maxCommitScan[1]
      shown == IF cap > 0 /\ n > cap THEN cap ELSE n
  IN [k \in 1..shown |-> Len(history) - k + 1]

\* C27: the commit-log parsers return exactly one CommitInfo per record of the
\* log output, newest first, the i-th with the hash and the message of the i-th
\* record.
C27_OneCommitPerRecord ==
  (TrunkBumpsDone /\ opts.maxCommitScan # <<>>)
    => /\ Len(commits) = Len(LoggedCommits)
       /\ \A k \in 1..Len(commits) :
             /\ commits[k].hash = <<HashStr[LoggedCommits[k]]>>
             /\ Trim(commits[k].message) = Trim(history[LoggedCommits[k]])

\* C26: on trunk with bumps enabled and the default patterns, the uncapped
\* exhaustive strategy (maxCommitScan = 0) returns the tally, the commitsSinceTag
\* and the version that the targeted strategy returns on the same repository.
C26_StrategiesAgree ==
  (TrunkBumpsDone /\ opts.maxCommitScan = <<0>>)
    => LET targeted == analyzeCommitBumps(getCommitsWithBumps(TRUE, FromRev, currentCommit))
           counted == CountOf(TRUE, GitRevListCount(FromRev, currentCommit))
       IN /\ commitBumps = targeted
          /\ commitsSinceTag = counted
          /\ version = ComposeVersion(lastTag, isMainBranch, currentBranch,
                                      targeted, counted, opts.enableCommitBumps)

\* a name git accepts for a branch, over NameChars: not empty, no dash or slash
\* in front, no slash at the end, no two slashes in a row
GitBranchName(name) ==
  /\ name # <<>>
  /\ Head(name) \notin {"-", "/"}
  /\ name[Len(name)] # "/"
  /\ \A i \in 1..(Len(name) - 1) : ~(name[i] = "/" /\ name[i + 1] = "/")

\* C29: on a non-trunk branch the prerelease identifier derived from the branch
\* name is never empty, so the version X.Y.Z-<id>.<n> is a well-formed semver
\* string.
C29_PrereleaseIdNonEmpty ==
  (pc = "sanitized" /\ GitBranchName(currentBranch))
    => /\ Sanitize(currentBranch) # <<>>
       /\ SemverParse(version).ok

\* the place of a command in the order of the queries: current branch, current
\* head, tag list, tag commits, reachable tags, commit scan, commit count
QueryRank(cmd) ==
  IF cmd[1] = <<"rev-parse">> THEN (IF cmd[2] = <<"--abbrev-ref">> THEN 1 ELSE 2)
  ELSE IF cmd[1] = <<"tag">> THEN (IF cmd[2] = <<"-l">> THEN 3 ELSE 5)
  ELSE IF cmd[1] = <<"show-ref">> THEN 4
  ELSE IF cmd[1] = <<"log">> THEN 6
  ELSE 7

Issued(rank) == \E i \in 1..Len(issued) : QueryRank(issued[i]) = rank

\* C23: calculateVersion issues its queries one after the other in the order
\* current branch, current head, tag list, (tag commits and reachable tags only
\* when a version tag exists,) commit scan, commit count; the scan only on trunk
\* with bumps enabled; and the version is composed only after the count query
\* has completed.
C23_QueryOrder ==
  /\ \A i \in 1..Len(issued) : \A j \in 1..Len(issued) :
        i < j => QueryRank(issued[i]) < QueryRank(issued[j])
  /\ \A k \in 1..3 : Len(issued) >= k => QueryRank(issued[k]) = k
  /\ Issued(4) => tagCommits # <<>>
  /\ Issued(5) => (Issued(4) /\ versionTags # <<>>)
  /\ Issued(6) => (isMainBranch /\ opts.enableCommitBumps)
  /\ Issued(7) => (Issued(6) <=> (isMainBranch /\ opts.enableCommitBumps))
  /\ version # <<>> => Issued(7)

\* a command that reads the repository: rev-parse, tag -l, show-ref,
\* tag --merged, rev-list --count, log
ReadOnlyQuery(cmd) ==
  \/ cmd[1] \in {<<"rev-parse">>, <<"show-ref">>, <<"log">>}
  \/ cmd[1] = <<"tag">> /\ Len(cmd) >= 2 /\ cmd[2] \in {<<"-l">>, <<"--merged">>}
  \/ cmd[1] = <<"rev-list">> /\ cmd[2] = <<"--count">>

\* C24: every command a call of calculateVersion or suggestVersionBump sends to
\* git is one of the read-only queries, and no step of a call changes the
\* history, the tags or the checked-out branch.
C24_ReadOnlyQueries ==
  [][/\ \A i \in 1..Len(issued') : ReadOnlyQuery(issued'[i])
     /\ (pc # "idle" => UNCHANGED repo)]_vars

\* suggestVersionBump has returned after all seven queries of a trunk call
C24_Witness ==
  /\ pc = "suggested"
  /\ Len(issued) = 7
  /\ \A rank \in 1..7 : Issued(rank)

\* the call that has returned ran on the history of the call before with one
\* more commit, with the same options and the same baseline
AppendedOne ==
  /\ pc = "done"
  /\ isMainBranch
  /\ previous.called
  /\ previous.opts = opts
  /\ previous.base = BaseIndex
  /\ history = Append(previous.history, history[Len(history)])

\* C21: on trunk every commit increments the patch version by one: after one
\* more commit without markers the computed version has a patch component
\* exactly one higher than before.
C21_PatchPerCommit ==
  (AppendedOne /\ ~HasMarker(history[Len(history)]))
    => SemverParse(version).patch = SemverParse(previous.version).patch + 1

\* C28: on trunk with a fixed baseline and no explicit-version marker in the
\* range, one more commit, marked major, minor or patch or not at all, never
\* gives a version lower in semver order than the version before.
C28_NeverLower ==
  (AppendedOne /\ ExplicitCommits = {})
    => Compare(SemverParse(version), SemverParse(previous.version)) >= 0

\* the call that has returned and the call before had the same options, each a
\* baseline, and the same commits after it
SameSinceBaseline ==
  /\ pc = "done"
  /\ previous.called
  /\ previous.opts = opts
  /\ previous.base > 0
  /\ BaseIndex > 0
  /\ Drop(previous.history, previous.base) = Drop(history, BaseIndex)

\* C22: markers on commits at or before the baseline tag's commit never
\* influence the result: two histories with the same baseline tag and the same
\* commits after it give the same tally, count and version, and with default
\* options n unmarked commits after the tag X.Y.Z give X.Y.(Z+n) whatever the
\* tagged commit and the commits before it carry.
C22_BaselineCutsHistory ==
  /\ SameSinceBaseline
       => /\ commitBumps = previous.commitBumps
          /\ commitsSinceTag = previous.commitsSinceTag
          /\ version = previous.version
  /\ (/\ pc = "done" /\ opts = DefaultOptions /\ BaseIndex > 0
      /\ \A i \in InRange : ~HasMarker(history[i]))
       => /\ commitBumps = NoBumps
          /\ version = Dotted(lastTag.version.major, lastTag.version.minor,
                              lastTag.version.patch + (Len(history) - BaseIndex))

\* "[v:5.0.0]" on the commit tagged v1.2.0, then a plain commit, after a call
\* on a repository whose tagged commit is the unmarked initial commit
C22_Witness ==
  /\ SameSinceBaseline
  /\ opts = DefaultOptions
  /\ BaseIndex = 2
  /\ history[2] = MsgExplicit
  /\ previous.base = 1
  /\ Drop(history, BaseIndex) = <<MsgPlain>>
  /\ version = <<"1", ".", "2", ".", "1">>

\* What the running call returns when it is the only call of its process: the
\* queries answered by the repository as it is, the commits classified by
\* pattern objects no exec or test has used.
AloneBranch ==
  IF GitExec(GitCurrentBranch) # <<>> THEN GitExec(GitCurrentBranch) ELSE BranchUnknown

AloneCommit == Head(GitExec(GitCurrentCommit))

AloneTag ==
  LET names == CandidateTags(GitExec(GitTagList))
      vts == IF names = <<>> THEN <<>> ELSE VersionTagsOf(names, GitExec(GitShowRef(names)))
  IN IF vts = <<>> THEN NullTag ELSE FirstReachable(vts, GitExec(GitTagMerged(AloneCommit)))

AloneFrom == IF AloneTag # NullTag THEN AloneTag.commit ELSE ""

AloneCommits ==
  IF opts.enableCommitBumps /\ AloneBranch \in MainBranches
  THEN IF opts.maxCommitScan # <<>>
       THEN getCommitMessages(TRUE, AloneFrom, AloneCommit, opts.maxCommitScan[1])
       ELSE getCommitsWithBumps(TRUE, AloneFrom, AloneCommit)
  ELSE <<>>

AloneBumps == AnalyzeWith(AloneCommits, NoBumps, NoMatchYet).bumps

AloneCount ==
  IF UsesLength(AloneCommits) THEN Len(AloneCommits)
  ELSE CountOf(TRUE, GitRevListCount(AloneFrom, AloneCommit))

AloneVersion ==
  ComposeVersion(AloneTag, AloneBranch \in MainBranches, AloneBranch, AloneBumps,
                 AloneCount, opts.enableCommitBumps)

\* C25: a call of calculateVersion that ran while another call was in flight,
\* or after other calls of the process, returns what it returns when run
\* alone: the same branch, baseline, tally, count and version.
C25_AsWhenRunAlone ==
  pc = "done"
    => /\ currentBranch = AloneBranch
       /\ lastTag = AloneTag
       /\ commitBumps = AloneBumps
       /\ commitsSinceTag = AloneCount
       /\ version = AloneVersion

\* C30: a call that has started completes with a version, whatever git
\* answers: every step of a waiting call other than a progress message moves
\* it on (to another position, or to the next chunk), and it reaches the end.
\* Outside a running count the progress timer is not set, and the dots of the
\* progress message change only while a count runs (and at its start).
C30_CompletesTimerCleared ==
  /\ (pc # "idle") ~> (pc = "done" /\ version # <<>>)
  /\ [][(pc \in Waiting /\ dots' = dots)
          => <<pc, chunkStart>>' # <<pc, chunkStart>>]_vars
  /\ [](pc # "counting" => ~updateInterval)
  /\ [][dots' # dots => pc = "counting" \/ pc = "count"]_vars

\* a call on trunk, its targeted scan parsed in a chunk, completed after its
\* count ran long enough for two progress messages
C30_Witness ==
  /\ pc = "done"
  /\ version # <<>>
  /\ allCommits # <<>>
  /\ commits = allCommits
  /\ dots = 2
  /\ ~updateInterval

=============================================================================
